---- MODULE Spec2Model ----
(***************************************************************************)
(* namespace-sandbox (BobBuildTool/bob, src/namespace-sandbox): the        *)
(* command line parser, the @FILE expansion and the linear pipeline of     *)
(* main(): identity switch, stdio redirection, unshare with retry,         *)
(* privatisation of "/", filesystem construction, identity mapping,        *)
(* hostname, pivot_root and exec.                                          *)
(*                                                                         *)
(* C strings are sequences of one-character strings, so that tests such as *)
(* optarg[0] != '/' and argv[optind][0] == '@' are made on the characters. *)
(***************************************************************************)
EXTENDS Integers, Sequences, FiniteSets, TLC

VARIABLES
  argv0,      \* main's argv (argv0[1] is the program name)
  files,      \* the files an @FILE argument can name: name -> contents or NoFile
  posix,      \* POSIXLY_CORRECT is set: getopt stops at the first non-option
  pc,         \* the control point of the process
  frames,     \* the active ParseCommandLine calls, innermost last
  opt,        \* struct Options
  global_debug,
  ub,         \* an out-of-bounds access has happened
  status,     \* exit status once the process has ended ("none" before)
  tries,      \* CreateNamespaces: tries
  delay,      \* CreateNamespaces: delay
  sleeps,     \* CreateNamespaces: the delays usleep was called with
  idx,        \* loop index of the loop the process is in
  cwd,        \* the working directory: the components of its path
  fs,         \* the file tree: path components -> "dir" | "file" | "link"
  mtab,       \* /proc/self/mounts of the mount namespace, in mount order
  sb,         \* SetupDirectories: struct stat sb; the kind, or garbage
  homedir,    \* SetupDirectories: homedir
  env_home,   \* the HOME environment variable
  ids,        \* the process's uid and gid, and what SwitchToEuid/Egid returned
  log,        \* the calls made so far, with their outcomes
  input       \* what a function was handed that no other variable holds: the
              \* passwd file and $HOME SetupDirectories read, the arguments
              \* and results of a function that is run on its own

vars == <<argv0, files, posix, pc, frames, opt, global_debug, ub, status, tries,
          delay, sleeps, idx, cwd, fs, mtab, sb, homedir, env_home, ids, log, input>>

-----------------------------------------------------------------------------
(* C strings *)

NULL == <<"NULL">>
EmptyStr == << >>

\* s + n for a char pointer s: the string from its (n+1)-th character on
StrFrom(s, n) == SubSeq(s, n + 1, Len(s))

\* argv elements used by the inputs
Prog == <<"s">>
DashDash == <<"-", "-">>
Flag(c) == <<"-", c>>
Abs(c) == <<"/", c>>
At(c) == <<"@", c>>

RECURSIVE Concat(_)
Concat(ss) == IF ss = << >> THEN << >> ELSE Head(ss) \o Concat(Tail(ss))

-----------------------------------------------------------------------------
(* getopt(argc, argv, ":CDd:il:L:m:M:nrS:W:w:H:") *)

OptsNoArg == {"C", "D", "i", "n", "r"}
OptsWithArg == {"d", "l", "L", "m", "M", "S", "W", "w", "H"}

\* A frame is one ParseCommandLine call: argv, the index of the next element
\* getopt scans (optind), the position inside a cluster such as -nr (sp, 0 when
\* at the start of an element), the non-options getopt has skipped over
\* (permutation), and after getopt returned -1 the remaining arguments (rest).
NewFrame(argv) ==
  [argv |-> argv, optind |-> 2, sp |-> 0, nonopts |-> << >>, rest |-> << >>,
   phase |-> "getopt", base |-> 0, events |-> << >>]

IsOptionElement(e) == Len(e) >= 2 /\ e[1] = "-" /\ e # DashDash

\* One call of getopt: [c, optarg, optopt, fr] with c = "-1" at the end.
RECURSIVE Getopt(_, _)
Getopt(fr, posixly) ==
  LET argv == fr.argv
      argc == Len(argv)
      Done(rest) == [c |-> "-1", optarg |-> NULL, optopt |-> "",
                     fr |-> [fr EXCEPT !.rest = rest, !.sp = 0]]
  IN
  IF fr.sp = 0 /\ fr.optind > argc THEN Done(fr.nonopts)
  ELSE IF fr.sp = 0 /\ argv[fr.optind] = DashDash
    THEN Done(fr.nonopts \o SubSeq(argv, fr.optind + 1, argc))
  ELSE IF fr.sp = 0 /\ ~IsOptionElement(argv[fr.optind])
    THEN IF posixly
         THEN Done(SubSeq(argv, fr.optind, argc))
         ELSE Getopt([fr EXCEPT !.optind = @ + 1,
                                !.nonopts = Append(@, argv[fr.optind])], posixly)
  ELSE
    LET e == argv[fr.optind]
        p == IF fr.sp = 0 THEN 2 ELSE fr.sp
        x == e[p]
        last == (p = Len(e))
        step == IF last THEN [fr EXCEPT !.optind = @ + 1, !.sp = 0]
                        ELSE [fr EXCEPT !.sp = p + 1]
    IN
    IF x \in OptsNoArg
      THEN [c |-> x, optarg |-> NULL, optopt |-> "", fr |-> step]
    ELSE IF x \notin OptsWithArg
      THEN [c |-> "?", optarg |-> NULL, optopt |-> x, fr |-> step]
    ELSE IF ~last
      THEN [c |-> x, optarg |-> SubSeq(e, p + 1, Len(e)), optopt |-> "",
            fr |-> [fr EXCEPT !.optind = @ + 1, !.sp = 0]]
    ELSE IF fr.optind + 1 <= argc
      THEN [c |-> x, optarg |-> argv[fr.optind + 1], optopt |-> "",
            fr |-> [fr EXCEPT !.optind = @ + 2, !.sp = 0]]
    ELSE [c |-> ":", optarg |-> NULL, optopt |-> x,
          fr |-> [fr EXCEPT !.optind = @ + 1, !.sp = 0]]

-----------------------------------------------------------------------------
(* struct Options and the parser *)

kNobodyUid == 65534
kNobodyGid == 65534

NullArray(n) == [i \in 1..n |-> NULL]
FalseArray(n) == [i \in 1..n |-> FALSE]

\* main, lines 697-705: the zeroed struct and the arrays of argc slots
InitOptions(argc) ==
  [stdout_path |-> NULL, stderr_path |-> NULL, args |-> NULL,
   sandbox_root |-> NULL, working_dir |-> NULL,
   mount_sources |-> NullArray(argc), mount_targets |-> NullArray(argc),
   mount_rw |-> FalseArray(argc), mount_map_sizes |-> argc, num_mounts |-> 0,
   create_dirs |-> NullArray(argc), create_dirs_size |-> argc,
   num_create_dirs |-> 0,
   uid |-> kNobodyUid, gid |-> kNobodyGid, create_netns |-> 0,
   host_name |-> NULL]

\* a[i] for a C array held as a sequence; "OOB" when i is outside of it
Elem(a, i) == IF i + 1 \in DOMAIN a THEN a[i + 1] ELSE <<"OOB">>
InBounds(a, i) == i + 1 \in DOMAIN a

\* a[i] = v; a store past the end lands in the memory behind the array, which
\* the model keeps as further elements (the caller records the overflow)
Store(a, i, v) ==
  IF i + 1 \in DOMAIN a THEN [a EXCEPT ![i + 1] = v]
  ELSE [k \in 1..(i + 1) |-> IF k \in DOMAIN a THEN a[k]
                             ELSE IF k = i + 1 THEN v ELSE NULL]

\* lines 161-184: the three arrays are doubled and the new half is zeroed
GrowMountArrays(o) ==
  [o EXCEPT !.mount_sources = @ \o NullArray(o.mount_map_sizes),
            !.mount_targets = @ \o NullArray(o.mount_map_sizes),
            !.mount_rw = @ \o FalseArray(o.mount_map_sizes),
            !.mount_map_sizes = @ * 2]

\* The arrays grow only when the slot behind the last one is asked for.
NeedsGrowthLate(o) == o.num_mounts >= o.mount_map_sizes
\* line 161
NeedsGrowth(o) == o.num_mounts >= o.mount_map_sizes - 1

\* AddMountSource: the entry a pending source completes (lines 155-159)
FlushPendingAsRw(o) ==
  IF Elem(o.mount_sources, o.num_mounts) # NULL
  THEN [o EXCEPT !.mount_targets = Store(@, o.num_mounts,
                                         Elem(o.mount_sources, o.num_mounts)),
                 !.mount_rw = Store(@, o.num_mounts, TRUE),
                 !.num_mounts = @ + 1]
  ELSE o
FlushPending(o) ==
  IF Elem(o.mount_sources, o.num_mounts) # NULL
  THEN [o EXCEPT !.mount_targets = Store(@, o.num_mounts,
                                         Elem(o.mount_sources, o.num_mounts)),
                 !.mount_rw = Store(@, o.num_mounts, FALSE),
                 !.num_mounts = @ + 1]
  ELSE o

AddMountSource(source, o) ==
  LET o1 == FlushPending(o)
      o2 == IF NeedsGrowth(o1) THEN GrowMountArrays(o1) ELSE o1
  IN IF source # NULL
     THEN [o2 EXCEPT !.mount_sources = Store(@, o2.num_mounts, source)]
     ELSE o1

\* -m and -w once their checks passed (lines 308-310 and 320-322)
SetMountTarget(o, target, rw) ==
  [o EXCEPT !.mount_rw = Store(@, o.num_mounts, rw),
            !.mount_targets = Store(@, o.num_mounts, target),
            !.num_mounts = @ + 1]

\* A target is taken also when no source waits for it.
NoSourcePendingNever(o) == FALSE
\* lines 305 and 317: opt->mount_sources[opt->num_mounts] == NULL
NoSourcePending(o) == Elem(o.mount_sources, o.num_mounts) = NULL

\* s[0] of a C string: the terminator when the string is empty
FirstChar(s) == IF Len(s) = 0 THEN "NUL" ELSE s[1]

\* lines 260-265: strdup(optarg) with one trailing slash removed
StripTrailingSlash(s) ==
  IF Len(s) > 0 /\ s[Len(s)] = "/" THEN SubSeq(s, 1, Len(s) - 1) ELSE s

\* The body of the switch (lines 253-359) for one option that getopt returned:
\* the new Options and debug flag, whether Usage was called, and whether an
\* index outside of an array (or of the string, for -S "") was used.
\* real is the [uid, gid] getuid() and getgid() return.
SwitchCase(o, dbg, g, real) ==
  LET c == g.c
      a == g.optarg
      same == [opt |-> o, debug |-> dbg, usage |-> FALSE, oob |-> FALSE]
      Usage == [same EXCEPT !.usage = TRUE]
      With(o2) == [same EXCEPT !.opt = o2]
  IN
  CASE c = "S" ->
         IF o.sandbox_root = NULL
         THEN [With([o EXCEPT !.sandbox_root = StripTrailingSlash(a)])
                 EXCEPT !.oob = (Len(a) = 0)]
         ELSE Usage
    [] c = "W" ->
         IF o.working_dir = NULL THEN With([o EXCEPT !.working_dir = a])
         ELSE Usage
    [] c = "d" ->
         IF FirstChar(a) # "/" THEN Usage
         ELSE [With([o EXCEPT
                  !.create_dirs = Store(@, o.num_create_dirs, a),
                  !.num_create_dirs = @ + 1])
                 EXCEPT !.oob = ~InBounds(o.create_dirs, o.num_create_dirs)]
    [] c = "i" -> With([o EXCEPT !.uid = real.uid, !.gid = real.gid])
    [] c = "M" ->
         IF FirstChar(a) # "/" THEN Usage
         ELSE [With(AddMountSource(a, o)) EXCEPT
                 !.oob = \/ ~InBounds(o.mount_sources, o.num_mounts)
                         \/ Len(AddMountSource(a, o).mount_sources)
                              # AddMountSource(a, o).mount_map_sizes]
    [] c \in {"m", "w"} ->
         IF FirstChar(a) # "/" THEN Usage
         ELSE IF ~InBounds(o.mount_sources, o.num_mounts)
           THEN [With(SetMountTarget(o, a, c = "w")) EXCEPT !.oob = TRUE]
         ELSE IF NoSourcePending(o) THEN Usage
         ELSE With(SetMountTarget(o, a, c = "w"))
    [] c = "n" -> With([o EXCEPT !.create_netns = 1])
    [] c = "r" -> With([o EXCEPT !.uid = 0, !.gid = 0])
    [] c = "H" -> With([o EXCEPT !.host_name = a])
    [] c = "D" -> [same EXCEPT !.debug = TRUE]
    [] c = "l" ->
         IF o.stdout_path = NULL THEN With([o EXCEPT !.stdout_path = a])
         ELSE Usage
    [] c = "L" ->
         IF o.stderr_path = NULL THEN With([o EXCEPT !.stderr_path = a])
         ELSE Usage
    [] OTHER -> Usage

-----------------------------------------------------------------------------
(* ParseOptionsFile: the lines of the file become sub_argv *)

ArgumentSize == 8192
NoFile == <<"ENOENT">>

\* strlen: the characters before the first NUL
Strlen(s) ==
  LET nuls == {i \in 1..Len(s) : s[i] = "NUL"}
  IN IF nuls = {} THEN Len(s)
     ELSE (CHOOSE i \in nuls : \A j \in nuls : i <= j) - 1

\* fgets(argument, sizeof(argument), f) at offset pos (1-based): the characters
\* up to and including the next newline, at most sizeof(argument) - 1 of them;
\* << >> at the end of the file. n characters are already read.
FgetsLen(content, pos, n) ==
  LET left == Len(content) - pos + 1
      limit == IF left < ArgumentSize - 1 THEN left ELSE ArgumentSize - 1
      newlines == {m \in n..(limit - 1) : content[pos + m] = "\n"}
  IN IF limit <= n THEN n
     ELSE IF newlines = {} THEN limit
     ELSE (CHOOSE m \in newlines : \A j \in newlines : m <= j) + 1
Fgets(content, pos) == SubSeq(content, pos, pos + FgetsLen(content, pos, 0) - 1)

\* The loop of lines 204-236, from offset pos with sub_argv = acc:
\* [argv, die], die when an argument fills the whole buffer (line 222).
RECURSIVE ReadArguments(_, _, _)
ReadArguments(content, pos, acc) ==
  LET argument == Fgets(content, pos)
      length == Strlen(argument)
      next == pos + Len(argument)
  IN
  IF argument = << >> THEN [argv |-> acc, die |-> FALSE]
  ELSE IF length = 0 THEN ReadArguments(content, next, acc)
  ELSE IF length = ArgumentSize THEN [argv |-> acc, die |-> TRUE]
  ELSE IF argument[length] = "\n"
    THEN ReadArguments(content, next,
                       Append(acc, SubSeq(argument, 1, length - 1)))
  ELSE [argv |-> Append(acc, SubSeq(argument, 1, length)), die |-> FALSE]

\* The vector starts with the first line of the file (no sub_argv[0]).
SubArgvNoProgram(content) == ReadArguments(content, 1, << >>)
\* sub_argv as ParseOptionsFile hands it to ParseCommandLine (sub_argv[0] = "")
SubArgv(content) == ReadArguments(content, 1, <<EmptyStr>>)

-----------------------------------------------------------------------------
(* The process: ParseCommandLine and main's checks of its result *)

Top == frames[Len(frames)]
SetTop(fr) == [frames EXCEPT ![Len(frames)] = fr]

Exit(st) == pc' = "exited" /\ status' = st

\* what the parser leaves alone
NsVars == <<tries, delay, sleeps>>
PipelineVars == <<NsVars, idx, cwd, fs, mtab, sb, homedir, env_home, ids,
                  log, input>>
InputVars == <<argv0, files, posix>>

\* getopt returned an option other than -C: one round of the loop of line 252
ParseOption ==
  /\ pc = "ParseCommandLine"
  /\ Top.phase = "getopt"
  /\ LET g == Getopt(Top, posix)
         r == SwitchCase(opt, global_debug, g, ids)
     IN /\ g.c \notin {"-1", "C"}
        /\ \E crash \in (IF r.oob /\ ~r.usage THEN BOOLEAN ELSE {FALSE}) :
             IF r.usage
             THEN /\ Exit(1)
                  /\ UNCHANGED <<frames, opt, global_debug, ub>>
             ELSE IF crash
             THEN /\ pc' = "crashed"
                  /\ status' = "signal"
                  /\ ub' = TRUE
                  /\ UNCHANGED <<frames, opt, global_debug>>
             ELSE /\ opt' = r.opt
                  /\ global_debug' = r.debug
                  /\ ub' = (ub \/ r.oob)
                  /\ frames' = SetTop([g.fr EXCEPT !.events =
                                         Append(@, <<g.c, g.optarg>>)])
                  /\ UNCHANGED <<pc, status>>
  /\ UNCHANGED <<InputVars, PipelineVars>>

\* -C (line 256): exit(CheckNamespacesSupported()), 0 when clone and waitpid
\* succeeded
ProbeOption ==
  /\ pc = "ParseCommandLine"
  /\ Top.phase = "getopt"
  /\ Getopt(Top, posix).c = "C"
  /\ \E st \in {0, 1} : Exit(st)
  /\ UNCHANGED <<frames, opt, global_debug, ub, InputVars, PipelineVars>>

\* getopt returned -1: AddMountSource(NULL, opt), line 362
EndOptions ==
  /\ pc = "ParseCommandLine"
  /\ Top.phase = "getopt"
  /\ LET g == Getopt(Top, posix)
     IN /\ g.c = "-1"
        /\ opt' = AddMountSource(NULL, opt)
        /\ frames' = SetTop([g.fr EXCEPT !.phase = "files"])
  /\ UNCHANGED <<pc, status, global_debug, ub, InputVars, PipelineVars>>

FileContent(name) == IF name \in DOMAIN files THEN files[name] ELSE NoFile

\* line 364: optind < argc && argv[optind][0] == '@'
IsFileArgument(rest) == IF rest = << >> THEN FALSE ELSE FirstChar(rest[1]) = "@"

\* lines 364-370 with ParseOptionsFile: argv[optind] starts with '@'
ExpandFile ==
  /\ pc = "ParseCommandLine"
  /\ Top.phase = "files"
  /\ IsFileArgument(Top.rest)
  /\ LET content == FileContent(StrFrom(Top.rest[1], 1))
         sub == SubArgv(content)
     IN IF content = NoFile \/ sub.die
        THEN Exit(1) /\ UNCHANGED frames
        ELSE /\ frames' = Append(SetTop([Top EXCEPT !.rest = Tail(@)]),
                                 [NewFrame(sub.argv) EXCEPT
                                    !.base = opt.num_mounts])
             /\ UNCHANGED <<pc, status>>
  /\ UNCHANGED <<opt, global_debug, ub, InputVars, PipelineVars>>

\* The last command given replaces the one before it.
TakeCommandLastWins(o, rest) ==
  IF rest = << >> THEN [opt |-> o, usage |-> FALSE]
  ELSE [opt |-> [o EXCEPT !.args = rest], usage |-> FALSE]
\* lines 372-378: the arguments that are left are the command
TakeCommand(o, rest) ==
  IF rest = << >> THEN [opt |-> o, usage |-> FALSE]
  ELSE IF o.args = NULL THEN [opt |-> [o EXCEPT !.args = rest], usage |-> FALSE]
  ELSE [opt |-> o, usage |-> TRUE]

\* the end of one ParseCommandLine call
ReturnVector ==
  /\ pc = "ParseCommandLine"
  /\ Top.phase = "files"
  /\ ~IsFileArgument(Top.rest)
  /\ LET r == TakeCommand(opt, Top.rest)
     IN IF r.usage
        THEN Exit(1) /\ UNCHANGED <<opt, frames>>
        ELSE /\ opt' = r.opt
             /\ frames' = SubSeq(frames, 1, Len(frames) - 1)
             /\ pc' = IF Len(frames) = 1 THEN "MainChecks" ELSE pc
             /\ UNCHANGED status
  /\ UNCHANGED <<global_debug, ub, InputVars, PipelineVars>>

\* main goes on whatever the parse has left.
MainChecksLenient ==
  /\ pc = "MainChecks"
  /\ pc' = "SwitchToEuid"
  /\ UNCHANGED <<status, frames, opt, global_debug, ub, InputVars, PipelineVars>>
\* main, lines 708-713
MainChecks ==
  /\ pc = "MainChecks"
  /\ IF opt.args = NULL \/ opt.sandbox_root = NULL
     THEN Exit(1)
     ELSE pc' = "SwitchToEuid" /\ UNCHANGED status
  /\ UNCHANGED <<frames, opt, global_debug, ub, InputVars, PipelineVars>>

ParseNext ==
  \/ ParseOption
  \/ ProbeOption
  \/ EndOptions
  \/ ExpandFile
  \/ ReturnVector
  \/ MainChecks

-----------------------------------------------------------------------------
(* Paths and the file tree.  fs maps a resolved path (the sequence of its    *)
(* components from "/") to the kind of the node there.                       *)

\* the components of a path string: the runs of characters between slashes
RECURSIVE SplitFrom(_, _, _)
SplitFrom(s, cur, acc) ==
  IF s = << >> THEN (IF cur = << >> THEN acc ELSE Append(acc, cur))
  ELSE IF Head(s) = "/"
    THEN SplitFrom(Tail(s), << >>, IF cur = << >> THEN acc ELSE Append(acc, cur))
  ELSE SplitFrom(Tail(s), Append(cur, Head(s)), acc)
Split(s) == SplitFrom(s, << >>, << >>)

\* "." names the directory itself
DropDots(comps) == SelectSeq(comps, LAMBDA c : c # <<".">>)

\* the node a path names for a process whose working directory is dir
Resolve(dir, path) ==
  IF FirstChar(path) = "/" THEN DropDots(Split(path))
  ELSE dir \o DropDots(Split(path))

\* the path string of a node, as /proc/self/mounts prints a mount point
RECURSIVE PathString(_)
PathString(comps) ==
  IF comps = << >> THEN << >>
  ELSE <<"/">> \o Head(comps) \o PathString(Tail(comps))
MountPoint(comps) == IF comps = << >> THEN <<"/">> ELSE PathString(comps)

\* dirname(3): trailing slashes and the last component are taken off
RECURSIVE StripSlashes(_)
StripSlashes(s) ==
  IF Len(s) > 1 /\ s[Len(s)] = "/" THEN StripSlashes(SubSeq(s, 1, Len(s) - 1))
  ELSE s
RECURSIVE DropLastComponent(_)
DropLastComponent(s) ==
  IF s = << >> \/ s[Len(s)] = "/" THEN s
  ELSE DropLastComponent(SubSeq(s, 1, Len(s) - 1))
\* The recursion goes to the top of the path at once.
DirnameTop(path) == IF FirstChar(path) = "/" THEN <<"/">> ELSE <<".">>
\* line 477: dirname(strdupa(path))
Dirname(path) ==
  LET p == StripSlashes(path)
      d == DropLastComponent(p)
  IN IF p = <<"/">> THEN <<"/">>
     ELSE IF d = << >> THEN <<".">>
     ELSE StripSlashes(d)

\* stat(2): the kind of the node, "ENOTDIR" when a node on the way is no
\* directory, "ENOENT" when the node is missing
RECURSIVE BlockedAt(_, _, _)
BlockedAt(tree, comps, n) ==
  IF n >= Len(comps) THEN FALSE
  ELSE IF SubSeq(comps, 1, n) \in DOMAIN tree /\ tree[SubSeq(comps, 1, n)] # "dir"
    THEN TRUE
  ELSE BlockedAt(tree, comps, n + 1)
Stat(tree, comps) ==
  IF BlockedAt(tree, comps, 0) THEN "ENOTDIR"
  ELSE IF comps \in DOMAIN tree THEN tree[comps]
  ELSE "ENOENT"

\* mkdir(2), open(O_CREAT | O_EXCL) and symlink(2) need a missing node in an
\* existing directory
CanCreate(tree, comps) ==
  /\ comps # << >>
  /\ Stat(tree, comps) = "ENOENT"
  /\ Stat(tree, SubSeq(comps, 1, Len(comps) - 1)) = "dir"
AddNode(tree, comps, kind) == (comps :> kind) @@ tree

\* The two errno values are exchanged.
WrongKindErrnoSwapped(is_directory) == IF is_directory THEN "EEXIST" ELSE "ENOTDIR"
\* line 465: errno = is_directory ? ENOTDIR : EEXIST
WrongKindErrno(is_directory) == IF is_directory THEN "ENOTDIR" ELSE "EEXIST"

\* CreateTarget (lines 442-486) in the directory dir.  fault is what the
\* environment makes fail: "stat" (the stat of path fails with an errno other
\* than ENOENT) or "create" (the mkdir or open that creates a node fails).
\* [fs, ret, errno, exit, calls]: exit when a CHECK_CALL inside ended the
\* process, calls the number of calls of CreateTarget made, this one included.
RECURSIVE CreateTarget(_, _, _, _, _)
CreateTarget(tree, dir, path, is_directory, fault) ==
  LET p == IF Len(path) = 0 THEN <<".">> ELSE path
      node == Resolve(dir, p)
      st == Stat(tree, node)
      Ret(t, r, e, x, n) ==
        [fs |-> t, ret |-> r, errno |-> e, exit |-> x, calls |-> n]
  IN
  IF path = NULL THEN Ret(tree, -1, "EINVAL", FALSE, 1)
  ELSE IF fault = "stat" THEN Ret(tree, -1, "EACCES", FALSE, 1)
  ELSE IF st \in {"dir", "file", "link"}
    THEN IF is_directory /\ st = "dir" THEN Ret(tree, 0, "", FALSE, 1)
         ELSE IF ~is_directory /\ st = "file" THEN Ret(tree, 0, "", FALSE, 1)
         ELSE Ret(tree, -1, WrongKindErrno(is_directory), FALSE, 1)
  ELSE IF st # "ENOENT" THEN Ret(tree, -1, st, FALSE, 1)
  ELSE IF Dirname(p) = p THEN Ret(tree, -1, "ENOENT", TRUE, 1)
  ELSE
    LET parent == CreateTarget(tree, dir, Dirname(p), TRUE, "none")
    IN IF parent.exit \/ parent.ret = -1
         THEN Ret(parent.fs, -1, parent.errno, TRUE, parent.calls + 1)
       ELSE IF fault = "create" \/ ~CanCreate(parent.fs, node)
         THEN Ret(parent.fs, -1, "EACCES", TRUE, parent.calls + 1)
       ELSE Ret(AddNode(parent.fs, node, IF is_directory THEN "dir" ELSE "file"),
                0, "", FALSE, parent.calls + 1)

-----------------------------------------------------------------------------
(* /proc/self/mounts and GetMountFlags *)

InheritedFlags == {"nodev", "nosuid", "noexec"}

\* the index of the last entry at a mount point from the i-th entry down, 0
\* when there is none: the mount that lies on top there
RECURSIVE LastEntryAt(_, _, _)
LastEntryAt(tab, path, i) ==
  IF i = 0 THEN 0
  ELSE IF tab[i].dir = path THEN i
  ELSE LastEntryAt(tab, path, i - 1)
\* the index of the entry the loop of lines 498-502 stops at, 0 when it runs
\* to the end of the table; the loop leaves at the first match
RECURSIVE FirstEntryAt(_, _, _)
FirstEntryAt(tab, path, i) ==
  IF i > Len(tab) THEN 0
  ELSE IF tab[i].dir = path THEN i
  ELSE FirstEntryAt(tab, path, i + 1)

\* the mount a remount of line 577 acts on: the one mounted there last
FoundEntryLast(tab, path) == LastEntryAt(tab, path, Len(tab))
\* entry after the loop of lines 497-502 (0 for NULL)
FoundEntry(tab, path) == FirstEntryAt(tab, path, 1)

\* lines 504-520: the MS_NODEV, MS_NOSUID and MS_NOEXEC bits as a set
GetMountFlags(tab, path) ==
  LET i == FoundEntry(tab, path)
  IN IF i = 0 THEN {}
     ELSE {IF f = "nodev" THEN "MS_NODEV"
           ELSE IF f = "nosuid" THEN "MS_NOSUID" ELSE "MS_NOEXEC" :
             f \in tab[i].opts \cap InheritedFlags}

-----------------------------------------------------------------------------
(* System calls.  A call is [op, tag, path, src, isdir, checked]; checked    *)
(* says that the call stands in a CHECK_CALL, so its failure is exit(1).     *)
(* The state a call works on is st = [fs, mtab, cwd, log, sb].               *)

Call(op, tag, path, src, isdir, checked) ==
  [op |-> op, tag |-> tag, path |-> path, src |-> src, isdir |-> isdir,
   checked |-> checked]
Checked(op, tag, path) == Call(op, tag, path, NULL, FALSE, TRUE)
Unchecked(op, tag, path) == Call(op, tag, path, NULL, FALSE, FALSE)
Mount(tag, src, path) == Call("mount", tag, path, src, FALSE, TRUE)

\* a record of the log; i is the mount entry the call is made for, or -1
Ev(fn, call, errno, fatal, i) ==
  [fn |-> fn, op |-> call.op, tag |-> call.tag, path |-> call.path,
   ok |-> (errno = ""), errno |-> errno, fatal |-> fatal, i |-> i]
Enter(fn) ==
  [fn |-> fn, op |-> "enter", tag |-> "", path |-> NULL, ok |-> TRUE,
   errno |-> "", fatal |-> FALSE, i |-> -1]

IsPrefix(a, b) == Len(a) <= Len(b) /\ SubSeq(b, 1, Len(a)) = a

\* the mount a node lies in: the last entry with the longest mount point
\* that leads to the node (0 when the table has none)
MountOf(tab, comps) ==
  LET cand == {i \in 1..Len(tab) : IsPrefix(Split(tab[i].dir), comps)}
      best == {i \in cand : \A j \in cand :
                 \/ Len(Split(tab[j].dir)) < Len(Split(tab[i].dir))
                 \/ Len(Split(tab[j].dir)) = Len(Split(tab[i].dir)) /\ j <= i}
  IN IF cand = {} THEN 0 ELSE CHOOSE i \in best : TRUE

OptsOf(tab, comps) ==
  IF MountOf(tab, comps) = 0 THEN {} ELSE tab[MountOf(tab, comps)].opts

FlagOpts(flags) ==
  {IF f = "MS_NODEV" THEN "nodev"
   ELSE IF f = "MS_NOSUID" THEN "nosuid" ELSE "noexec" : f \in flags}

\* S_ISDIR(sb.st_mode); sb holds "garbage-dir" or "garbage-file" while it is
\* not initialised
S_ISDIR(statbuf) == statbuf \in {"dir", "garbage-dir"}

\* One call: [st, ok, exit].  fault is "none", or what the environment makes
\* fail in this call ("fail", and "stat" for the stat inside CreateTarget); a
\* call also fails when the file tree does not allow it.
Do(st, fn, call, fault, user) ==
  LET node == Resolve(st.cwd, call.path)
      env == (fault # "none")
      Fatal(ok, exit) == IF exit THEN TRUE ELSE ~ok /\ call.checked
      DoneE(st2, errno, exit) ==
        [st |-> [st2 EXCEPT !.log = Append(st.log,
                   Ev(fn, call, errno, Fatal(errno = "", exit), user))],
         ok |-> (errno = ""), exit |-> Fatal(errno = "", exit)]
      Done(st2, ok, exit) == DoneE(st2, IF ok THEN "" ELSE "EFAIL", exit)
      Plain(ok) == Done(st, ok, FALSE)
  IN
  CASE call.op \in {"mkdir", "open", "symlink"} ->
         LET ok == ~env /\ CanCreate(st.fs, node)
             kind == IF call.op = "mkdir" THEN "dir"
                     ELSE IF call.op = "open" THEN "file" ELSE "link"
         IN Done(IF ok THEN [st EXCEPT !.fs = AddNode(@, node, kind)] ELSE st,
                 ok, FALSE)
    [] call.op = "mkdtemp" ->
         LET ok == ~env /\ CanCreate(st.fs, node)
         IN Done(IF ok THEN [st EXCEPT !.fs = AddNode(@, node, "dir")] ELSE st,
                 ok, FALSE)
    [] call.op = "rmdir" ->
         LET ok == ~env /\ Stat(st.fs, node) = "dir"
         IN Done(IF ok
                 THEN [st EXCEPT !.fs = [n \in DOMAIN st.fs \ {node} |-> st.fs[n]]]
                 ELSE st, ok, FALSE)
    [] call.op = "chdir_root" ->
         \* chdir after the pivot: "/" is the sandbox root, the directory the
         \* process is in
         LET to == st.cwd \o DropDots(Split(call.path))
             ok == ~env /\ Stat(st.fs, to) = "dir"
         IN Done(IF ok THEN [st EXCEPT !.cwd = to] ELSE st, ok, FALSE)
    [] call.op = "chdir" ->
         LET ok == ~env /\ Stat(st.fs, node) = "dir"
         IN Done(IF ok THEN [st EXCEPT !.cwd = node] ELSE st, ok, FALSE)
    [] call.op = "stat" ->
         \* line 544: sb is written only when stat succeeds
         LET ok == ~env /\ Stat(st.fs, node) \in {"dir", "file"}
         IN Done(IF ok THEN [st EXCEPT !.sb = Stat(st.fs, node)] ELSE st,
                 ok, FALSE)
    [] call.op = "CreateTarget" ->
         LET isdir == IF call.tag = "user" THEN S_ISDIR(st.sb) ELSE call.isdir
             r == CreateTarget(st.fs, st.cwd, call.path, isdir,
                               IF fault = "fail" THEN "create" ELSE fault)
         IN DoneE([st EXCEPT !.fs = r.fs], r.errno, r.exit)
    [] call.op = "mount" /\ call.tag \in {"anchor", "dev", "proc", "user"} ->
         \* a bind mount: source and target exist and are of one kind
         LET from == Resolve(st.cwd, call.src)
             ok == /\ ~env
                   /\ Stat(st.fs, node) \in {"dir", "file"}
                   /\ Stat(st.fs, from) = Stat(st.fs, node)
         IN Done(IF ok
                 THEN [st EXCEPT !.mtab = Append(@,
                         [dir |-> MountPoint(node), opts |-> OptsOf(st.mtab, from),
                          ro |-> FALSE, user |-> user])]
                 ELSE st, ok, FALSE)
    [] call.op = "mount" /\ call.tag \in {"devpts", "shm"} ->
         LET ok == ~env /\ Stat(st.fs, node) = "dir"
         IN Done(IF ok
                 THEN [st EXCEPT !.mtab = Append(@,
                         [dir |-> MountPoint(node),
                          opts |-> IF call.tag = "devpts"
                                   THEN {"nosuid", "noexec"}
                                   ELSE {"nosuid", "nodev"},
                          ro |-> FALSE, user |-> user])]
                 ELSE st, ok, FALSE)
    [] call.op = "remount" ->
         \* lines 576-579: the flags come from GetMountFlags; the kernel
         \* refuses a remount that clears nodev, nosuid or noexec
         LET flags == GetMountFlags(st.mtab, call.path)
             m == FoundEntryLast(st.mtab, MountPoint(node))
             ok == /\ ~env
                   /\ m # 0
                   /\ (st.mtab[m].opts \cap InheritedFlags) \subseteq FlagOpts(flags)
         IN Done(IF ok
                 THEN [st EXCEPT !.mtab[m].ro = TRUE,
                                 !.mtab[m].opts = FlagOpts(flags)]
                 ELSE st, ok, FALSE)
    [] OTHER -> Plain(~env)

\* The calls from the i-th on, in order, up to the first one that ends the
\* process; the environment makes the k-th fail (none when k = 0).
RECURSIVE RunCalls(_, _, _, _, _, _, _)
RunCalls(st, fn, calls, i, k, fault, user) ==
  IF i > Len(calls) THEN [st |-> st, exit |-> FALSE]
  ELSE LET r == Do(st, fn, calls[i], IF i = k THEN fault ELSE "none", user)
       IN IF r.exit THEN [st |-> r.st, exit |-> TRUE]
          ELSE RunCalls(r.st, fn, calls, i + 1, k, fault, user)

Kernel == [fs |-> fs, mtab |-> mtab, cwd |-> cwd, log |-> log, sb |-> sb]
Faults == {"fail", "stat"}

\* the process runs calls from the state st0 on and goes on at next unless
\* one of them ended it
RunFrom(st0, fn, calls, next, user) ==
  \E k \in 0..Len(calls) : \E fault \in (IF k = 0 THEN {"none"} ELSE Faults) :
    \E r \in {RunCalls(st0, fn, calls, 1, k, fault, user)} :
       /\ fs' = r.st.fs
       /\ mtab' = r.st.mtab
       /\ cwd' = r.st.cwd
       /\ log' = r.st.log
       /\ sb' = r.st.sb
       /\ IF r.exit THEN Exit(1) ELSE pc' = next /\ UNCHANGED status

Entered(fn) == [Kernel EXCEPT !.log = Append(@, Enter(fn))]
Run(fn, calls, next, user) == RunFrom(Entered(fn), fn, calls, next, user)

ParserVars == <<frames, opt, global_debug, ub>>

-----------------------------------------------------------------------------
(* main after the parse: the pipeline *)

max_tries == 100
DelayCeiling == 250000

\* SwitchToEuid, process-tools.c: setreuid only when uid and euid differ
SwitchToEuid ==
  /\ pc = "SwitchToEuid"
  /\ \E euid \in {ids.uid, 0} :
       /\ Run("SwitchToEuid",
              IF ids.uid # euid THEN <<Checked("setreuid", "", NULL)>> ELSE << >>,
              "SwitchToEgid", -1)
       /\ ids' = [ids EXCEPT !.outer_uid = euid]
  /\ UNCHANGED <<InputVars, ParserVars, NsVars, idx, homedir,
                 env_home, input>>

SwitchToEgid ==
  /\ pc = "SwitchToEgid"
  /\ \E egid \in {ids.gid, 0} :
       /\ Run("SwitchToEgid",
              IF ids.gid # egid THEN <<Checked("setregid", "", NULL)>> ELSE << >>,
              "RedirectStdout", -1)
       /\ ids' = [ids EXCEPT !.outer_gid = egid]
  /\ UNCHANGED <<InputVars, ParserVars, NsVars, idx, homedir,
                 env_home, input>>

\* Redirect, process-tools.c: nothing for NULL and for "-"
Redirect(target_path, name) ==
  IF target_path # NULL /\ target_path # <<"-">>
  THEN <<Checked("open_trunc", name, target_path), Checked("dup2", name, NULL),
         Checked("close", name, NULL)>>
  ELSE << >>

RedirectStdout ==
  /\ pc = "RedirectStdout"
  /\ Run("RedirectStdout", Redirect(opt.stdout_path, "stdout"),
         "RedirectStderr", -1)
  /\ UNCHANGED <<InputVars, ParserVars, NsVars, idx, homedir,
                 env_home, ids, input>>

RedirectStderr ==
  /\ pc = "RedirectStderr"
  /\ Run("RedirectStderr", Redirect(opt.stderr_path, "stderr"),
         "CreateNamespaces", -1)
  /\ UNCHANGED <<InputVars, ParserVars, NsVars, idx, homedir,
                 env_home, ids, input>>

\* main, lines 725-730: the loopback interface only with -n
AfterCreateNamespaces(o) ==
  IF o.create_netns = 1 THEN "BringupInterface" ELSE "MakePrivate"

\* Every failure of unshare is retried.
RetryUnshareAlways(errno) == TRUE
\* line 395: only EINVAL is retried
RetryUnshare(errno) == errno = "EINVAL"

\* line 389, the test of while (tries++ < max_tries)
MayTry(t) == t < max_tries

\* lines 403-405
NextDelay(d) == IF d < DelayCeiling THEN d * 2 ELSE d

\* the log holds a call that is repeated with the same outcome once
Logged(l, e) == IF l # << >> /\ l[Len(l)] = e THEN l ELSE Append(l, e)

\* CreateNamespaces: one round of the loop of lines 389-406; tries, delay and
\* the record of the sleeps end with the function
CreateNamespaces ==
  /\ pc = "CreateNamespaces"
  /\ MayTry(tries)
  /\ \E errno \in {"", "EINVAL", "EPERM"} :
       LET entered == IF tries = 0 THEN Append(log, Enter("CreateNamespaces"))
                      ELSE log
           called == Logged(entered,
                       Ev("CreateNamespaces", Unchecked("unshare", "", NULL),
                          errno, IF errno = "" THEN FALSE ELSE ~RetryUnshare(errno),
                          -1))
       IN /\ log' = called
          /\ IF errno = ""
             THEN /\ pc' = AfterCreateNamespaces(opt)
                  /\ tries' = 0
                  /\ delay' = 1
                  /\ sleeps' = << >>
                  /\ UNCHANGED status
             ELSE IF ~RetryUnshare(errno)
             THEN /\ Exit(1)
                  /\ tries' = tries + 1
                  /\ UNCHANGED <<delay, sleeps>>
             ELSE /\ tries' = tries + 1
                  /\ sleeps' = Append(sleeps, delay)
                  /\ delay' = NextDelay(delay)
                  /\ UNCHANGED <<pc, status>>
  /\ UNCHANGED <<InputVars, ParserVars, idx, cwd, fs, mtab, sb, homedir,
                 env_home, ids, input>>

\* lines 407-410: the budget is used up
CreateNamespacesGiveUp ==
  /\ pc = "CreateNamespaces"
  /\ ~MayTry(tries)
  /\ tries' = tries + 1
  /\ Exit(1)
  /\ UNCHANGED <<InputVars, ParserVars, delay, sleeps, idx, cwd, fs, mtab, sb,
                 homedir, env_home, ids, log, input>>

\* BringupInterface("lo") of network-tools: it ends the process when it fails
BringupInterface ==
  /\ pc = "BringupInterface"
  /\ Run("BringupInterface", <<Checked("BringupInterface", "lo", NULL)>>,
         "MakePrivate", -1)
  /\ UNCHANGED <<InputVars, ParserVars, NsVars, idx, homedir,
                 env_home, ids, input>>

\* The result of the mount is not looked at.
MakePrivateCallUnchecked == Unchecked("mount", "private", <<"/">>)
\* line 734
MakePrivateCall == Checked("mount", "private", <<"/">>)

MakePrivate ==
  /\ pc = "MakePrivate"
  /\ Run("MakePrivate", <<MakePrivateCall>>, "SetupDirectories", -1)
  /\ UNCHANGED <<InputVars, ParserVars, NsVars, idx, homedir,
                 env_home, ids, input>>


-----------------------------------------------------------------------------
(* SetupDirectories *)

\* lines 525-527
AnchorCalls(o) ==
  <<Mount("anchor", o.sandbox_root, o.sandbox_root),
    Checked("chdir", "", o.sandbox_root)>>

SetupDirectories ==
  /\ pc = "SetupDirectories"
  /\ Run("SetupDirectories", AnchorCalls(opt), "SetupDevices", -1)
  /\ UNCHANGED <<InputVars, ParserVars, NsVars, idx, homedir,
                 env_home, ids, input>>

devs == <<<<"/", "d", "e", "v", "/", "n", "u", "l", "l">>, <<"/", "d", "e", "v", "/", "r", "a", "n", "d", "o", "m">>, <<"/", "d", "e", "v", "/", "u", "r", "a", "n", "d", "o", "m">>, <<"/", "d", "e", "v", "/", "z", "e", "r", "o">>>>

\* lines 425-426 for one device: CreateFile and the bind mount over it
DeviceCalls(dev) ==
  <<Checked("open", "dev", StrFrom(dev, 1)), Checked("close", "dev", NULL),
    Mount("dev", dev, StrFrom(dev, 1))>>

\* SetupDevices, lines 421-437; the results of its two CreateTarget calls are
\* not looked at
SetupDevicesCalls ==
  <<Checked("mkdir", "dev", <<"d", "e", "v">>)>>
  \o Concat([i \in 1..Len(devs) |-> DeviceCalls(devs[i])])
  \o <<Call("CreateTarget", "dev", <<"d", "e", "v", "/", "p", "t", "s">>, NULL, TRUE, FALSE),
       Mount("devpts", <<"d", "e", "v", "p", "t", "s">>, <<"d", "e", "v", "/", "p", "t", "s">>),
       Checked("symlink", "dev", <<"d", "e", "v", "/", "p", "t", "m", "x">>),
       Call("CreateTarget", "dev", <<"d", "e", "v", "/", "s", "h", "m">>, NULL, TRUE, FALSE),
       Mount("shm", <<"t", "m", "p", "f", "s">>, <<"d", "e", "v", "/", "s", "h", "m">>),
       Checked("symlink", "dev", <<"d", "e", "v", "/", "f", "d">>)>>

\* where the loops of lines 536 and 542 go on after i rounds
CreateDirsFrom(o, i) ==
  IF i < o.num_create_dirs THEN "CreateDirs"
  ELSE IF o.num_mounts > 0 THEN "Mounts" ELSE "SetupHome"
MountsFrom(o, i) == IF i < o.num_mounts THEN "Mounts" ELSE "SetupHome"

SetupDevices ==
  /\ pc = "SetupDevices"
  /\ Run("SetupDevices", SetupDevicesCalls, "SetupProc", -1)
  /\ UNCHANGED <<InputVars, ParserVars, NsVars, idx, homedir,
                 env_home, ids, input>>

\* lines 532-533
SetupProc ==
  /\ pc = "SetupProc"
  /\ Run("SetupProc",
         <<Checked("mkdir", "proc", <<"p", "r", "o", "c">>), Mount("proc", <<"/", "p", "r", "o", "c">>, <<"p", "r", "o", "c">>)>>,
         CreateDirsFrom(opt, 0), -1)
  /\ idx' = 0
  /\ UNCHANGED <<InputVars, ParserVars, NsVars, homedir,
                 env_home, ids, input>>

\* lines 536-539, one round
CreateDirs ==
  /\ pc = "CreateDirs"
  /\ Run("CreateDirs",
         <<Call("CreateTarget", "create_dir",
                StrFrom(Elem(opt.create_dirs, idx), 1), NULL, TRUE, TRUE)>>,
         CreateDirsFrom(opt, idx + 1), -1)
  /\ idx' = IF idx + 1 < opt.num_create_dirs THEN idx + 1 ELSE 0
  /\ UNCHANGED <<InputVars, ParserVars, NsVars, homedir,
                 env_home, ids, input>>

\* lines 566-569
FullSandboxPath(o, i) == o.sandbox_root \o Elem(o.mount_targets, i)

\* The remount is made for every entry.
NeedsRemountAlways(o, i) == TRUE
\* line 575
NeedsRemount(o, i) == ~Elem(o.mount_rw, i)

\* The bind mount is made before its target is there.
MountCallsBindFirst(o, i) ==
  <<Unchecked("stat", "user", Elem(o.mount_sources, i)),
    Mount("user", Elem(o.mount_sources, i), FullSandboxPath(o, i)),
    Call("CreateTarget", "user", FullSandboxPath(o, i), NULL, FALSE, TRUE)>>
  \o (IF NeedsRemount(o, i)
      THEN <<Checked("setmntent", "user", NULL),
             Call("remount", "user", FullSandboxPath(o, i),
                  Elem(o.mount_sources, i), FALSE, FALSE)>>
      ELSE << >>)
\* lines 542-585 for the i-th entry: stat, CreateTarget, the bind mount and,
\* for a read-only entry, GetMountFlags and the remount, whose failure is
\* only warned about
MountCalls(o, i) ==
  <<Unchecked("stat", "user", Elem(o.mount_sources, i)),
    Call("CreateTarget", "user", FullSandboxPath(o, i), NULL, FALSE, TRUE),
    Mount("user", Elem(o.mount_sources, i), FullSandboxPath(o, i))>>
  \o (IF NeedsRemount(o, i)
      THEN <<Checked("setmntent", "user", NULL),
             Call("remount", "user", FullSandboxPath(o, i),
                  Elem(o.mount_sources, i), FALSE, FALSE)>>
      ELSE << >>)

\* one round of the loop; sb is a fresh, uninitialised struct stat
Mounts ==
  /\ pc = "Mounts"
  /\ \E garbage \in {"garbage-dir", "garbage-file"} :
       RunFrom([Entered("Mounts") EXCEPT !.sb = garbage], "Mounts",
               MountCalls(opt, idx), MountsFrom(opt, idx + 1), idx)
  /\ idx' = idx + 1
  /\ UNCHANGED <<InputVars, ParserVars, NsVars, homedir,
                 env_home, ids, input>>

\* $HOME is taken when it is set, the passwd file only without it.
LookupHomeEnvFirst(entries, uid, home) ==
  IF home # NULL THEN home
  ELSE IF entries = NoFile THEN home
  ELSE IF entries = << >> THEN home
  ELSE Head(entries).pw_dir
\* lines 589-606: the home directory of uid in the passwd file of the
\* sandbox (entries is what fgetpwent reads, NoFile when fopen failed),
\* otherwise $HOME
RECURSIVE FirstEntryOf(_, _)
FirstEntryOf(entries, uid) ==
  IF entries = << >> THEN NULL
  ELSE IF Head(entries).pw_uid = uid THEN Head(entries).pw_dir
  ELSE FirstEntryOf(Tail(entries), uid)
LookupHome(entries, uid, home) ==
  IF entries = NoFile THEN home
  ELSE IF FirstEntryOf(entries, uid) = NULL THEN home
  ELSE FirstEntryOf(entries, uid)

PasswdFiles ==
  {<< >>,
   <<[pw_uid |-> 0, pw_dir |-> <<"/", "r">>], [pw_uid |-> kNobodyUid, pw_dir |-> <<"r">>]>>,
   <<[pw_uid |-> 0, pw_dir |-> <<"/", "r">>], [pw_uid |-> kNobodyUid, pw_dir |-> <<"/", "n">>],
     [pw_uid |-> kNobodyUid, pw_dir |-> <<"/", "x">>]>>}

\* lines 608-617
HomeCalls(dir) ==
  <<Call("CreateTarget", "home", StrFrom(dir, 1), NULL, TRUE, TRUE),
    Checked("setenv", "HOME", dir)>>

\* The pivot comes right after the file tree.
AfterSetupDirectoriesPivot == "ChangeRoot"
\* main, lines 736-737
AfterSetupDirectories == "SetupUserNamespace"

etc_passwd == <<"e", "t", "c", "/", "p", "a", "s", "s", "w", "d">>

SetupHome ==
  /\ pc = "SetupHome"
  /\ \E entries \in (IF Stat(fs, Resolve(cwd, etc_passwd)) = "file"
                     THEN PasswdFiles \cup {NoFile} ELSE {NoFile}) :
       \E dir \in {LookupHome(entries, opt.uid, env_home)} :
         \E st0 \in {[Entered("SetupHome") EXCEPT !.log = Append(@,
                        Ev("SetupHome", Unchecked("fopen", "passwd", etc_passwd),
                           IF entries = NoFile THEN "ENOENT" ELSE "", FALSE,
                           -1))]} :
          /\ homedir' = dir
          /\ IF dir = NULL
             THEN /\ pc' = AfterSetupDirectories
                  /\ log' = st0.log
                  /\ UNCHANGED <<status, fs, mtab, cwd, sb, env_home>>
             ELSE IF FirstChar(dir) # "/"
             THEN /\ Exit(1)
                  /\ log' = st0.log
                  /\ UNCHANGED <<fs, mtab, cwd, sb, env_home>>
             ELSE /\ RunFrom(st0, "SetupHome", HomeCalls(dir),
                             AfterSetupDirectories, -1)
                  /\ env_home' = IF pc' = "exited" THEN env_home ELSE dir
          /\ input' = [passwd |-> entries, home |-> env_home]
  /\ UNCHANGED <<InputVars, ParserVars, NsVars, idx, ids>>

-----------------------------------------------------------------------------
(* SetupUserNamespace, the hostname, ChangeRoot and ExecCommand *)

\* Every failure of the write is tolerated.
SetgroupsFatalNever(errno) == FALSE
\* line 641: r < 0 && errno != ENOENT
SetgroupsFatal(errno) == errno # "" /\ errno # "ENOENT"

\* The gid map is written before the uid map.
IdMapCallsGidFirst ==
  <<Checked("WriteFile", "gid_map", <<"/", "p", "r", "o", "c", "/", "s", "e", "l", "f", "/", "g", "i", "d", "_", "m", "a", "p">>),
    Checked("WriteFile", "uid_map", <<"/", "p", "r", "o", "c", "/", "s", "e", "l", "f", "/", "u", "i", "d", "_", "m", "a", "p">>),
    Checked("setresuid", "", NULL),
    Checked("setresgid", "", NULL)>>
\* lines 654-658
IdMapCalls ==
  <<Checked("WriteFile", "uid_map", <<"/", "p", "r", "o", "c", "/", "s", "e", "l", "f", "/", "u", "i", "d", "_", "m", "a", "p">>),
    Checked("WriteFile", "gid_map", <<"/", "p", "r", "o", "c", "/", "s", "e", "l", "f", "/", "g", "i", "d", "_", "m", "a", "p">>),
    Checked("setresuid", "", NULL),
    Checked("setresgid", "", NULL)>>

\* main, lines 737-741: the hostname only with -H
AfterSetupUserNamespace(o) ==
  IF o.host_name # NULL THEN "SetHostname" ELSE "ChangeRoot"

setgroups == <<"/", "p", "r", "o", "c", "/", "s", "e", "l", "f", "/", "s", "e", "t", "g", "r", "o", "u", "p", "s">>

SetupUserNamespace ==
  /\ pc = "SetupUserNamespace"
  /\ \E errno \in {"", "ENOENT", "EPERM"} :
       \E st0 \in {[Entered("SetupUserNamespace") EXCEPT !.log = Append(@,
                      Ev("SetupUserNamespace",
                         Unchecked("WriteFile", "setgroups", setgroups),
                         errno, SetgroupsFatal(errno), -1))]} :
         IF SetgroupsFatal(errno)
         THEN /\ Exit(1)
              /\ log' = st0.log
              /\ UNCHANGED <<ids, fs, mtab, cwd, sb>>
         ELSE /\ RunFrom(st0, "SetupUserNamespace", IdMapCalls,
                         AfterSetupUserNamespace(opt), -1)
              /\ ids' = IF pc' = "exited" THEN ids
                        ELSE [ids EXCEPT !.uid = opt.uid, !.gid = opt.gid]
  /\ UNCHANGED <<InputVars, ParserVars, NsVars, idx, homedir, env_home, input>>

\* main, lines 738-740
SetHostname ==
  /\ pc = "SetHostname"
  /\ Run("SetHostname", <<Checked("sethostname", "", opt.host_name)>>,
         "ChangeRoot", -1)
  /\ UNCHANGED <<InputVars, ParserVars, NsVars, idx, homedir,
                 env_home, ids, input>>

old_root == <<"o", "l", "d", "-", "r", "o", "o", "t", "-", "X", "X", "X", "X", "X", "X">>

\* The directory is removed while the old root is still mounted on it.
ChangeRootCallsRmdirFirst(o) ==
  <<Checked("mkdtemp", "", old_root),
    Checked("pivot_root", "", old_root),
    Checked("chroot", "", <<".">>),
    Checked("rmdir", "", old_root),
    Checked("umount2", "", old_root)>>
  \o (IF o.working_dir # NULL
      THEN <<Checked("chdir_root", "", o.working_dir),
             Checked("setenv", "PWD", o.working_dir)>>
      ELSE << >>)
\* ChangeRoot, lines 663-678
ChangeRootCalls(o) ==
  <<Checked("mkdtemp", "", old_root),
    Checked("pivot_root", "", old_root),
    Checked("chroot", "", <<".">>),
    Checked("umount2", "", old_root),
    Checked("rmdir", "", old_root)>>
  \o (IF o.working_dir # NULL
      THEN <<Checked("chdir_root", "", o.working_dir),
             Checked("setenv", "PWD", o.working_dir)>>
      ELSE << >>)

ChangeRoot ==
  /\ pc = "ChangeRoot"
  /\ Run("ChangeRoot", ChangeRootCalls(opt), "ExecCommand", -1)
  /\ UNCHANGED <<InputVars, ParserVars, NsVars, idx, homedir,
                 env_home, ids, input>>

\* ExecCommand, lines 683-694: execvp returns only when it failed
ExecCommand ==
  /\ pc = "ExecCommand"
  /\ Run("ExecCommand", <<Checked("execvp", "", NULL)>>, "command", -1)
  /\ UNCHANGED <<InputVars, ParserVars, NsVars, idx, homedir,
                 env_home, ids, input>>

PipelineNext ==
  \/ SwitchToEuid
  \/ SwitchToEgid
  \/ RedirectStdout
  \/ RedirectStderr
  \/ CreateNamespaces
  \/ CreateNamespacesGiveUp
  \/ BringupInterface
  \/ MakePrivate
  \/ SetupDirectories
  \/ SetupDevices
  \/ SetupProc
  \/ CreateDirs
  \/ Mounts
  \/ SetupHome
  \/ SetupUserNamespace
  \/ SetHostname
  \/ ChangeRoot
  \/ ExecCommand


-----------------------------------------------------------------------------
(* The host the process starts on, and the runs that are checked *)

HostCwd == <<<<"h">>>>

\* the host's file tree: /s is the directory that becomes the sandbox root,
\* /a and /c are directories, /b is a regular file, /n does not exist
HostTree ==
  [n \in {<< >>, <<<<"s">>>>, <<<<"h">>>>, <<<<"a">>>>, <<<<"c">>>>, <<<<"d", "e", "v">>>>, <<<<"p", "r", "o", "c">>>>}
     |-> "dir"]
  @@ [n \in {<<<<"b">>>>, <<<<"d", "e", "v">>, <<"n", "u", "l", "l">>>>, <<<<"d", "e", "v">>, <<"r", "a", "n", "d", "o", "m">>>>,
             <<<<"d", "e", "v">>, <<"u", "r", "a", "n", "d", "o", "m">>>>, <<<<"d", "e", "v">>, <<"z", "e", "r", "o">>>>} |-> "file"]

Entry(dir, opts) == [dir |-> dir, opts |-> opts, ro |-> FALSE, user |-> -1]

\* the host's mounts: /a is a nosuid mount
HostMounts ==
  <<Entry(<<"/">>, {}), Entry(<<"/", "p", "r", "o", "c">>, {"nosuid", "nodev", "noexec"}),
    Entry(<<"/", "d", "e", "v">>, {"nosuid"}), Entry(<<"/", "a">>, {"nosuid"})>>

NoInput == << >>

\* the process and its host before main runs
Boot(argv, fileset, posixly, home) ==
  /\ argv0 = argv
  /\ files = fileset
  /\ posix = posixly
  /\ frames = <<NewFrame(argv)>>
  /\ opt = InitOptions(Len(argv))
  /\ global_debug = FALSE
  /\ ub = FALSE
  /\ status = "none"
  /\ tries = 0
  /\ delay = 1
  /\ sleeps = << >>
  /\ idx = 0
  /\ cwd = HostCwd
  /\ fs = HostTree
  /\ mtab = HostMounts
  /\ sb = "garbage-file"
  /\ homedir = NULL
  /\ env_home = home
  /\ ids = [uid |-> 1000, gid |-> 1000, outer_uid |-> -1, outer_gid |-> -1]
  /\ log = << >>

Start(argv, fileset, posixly, home) ==
  /\ Boot(argv, fileset, posixly, home)
  /\ pc = "ParseCommandLine"
  /\ input = NoInput

\* a file of the given lines, each ended by a newline
RECURSIVE FileOf(_)
FileOf(lines) ==
  IF lines = << >> THEN << >>
  ELSE Head(lines) \o <<"\n">> \o FileOf(Tail(lines))

S_s == <<<<"-", "S">>, <<"/", "s">>>>
Cmd == <<<<"c">>>>

\* the argument vectors of the whole-program runs, after the program name
MainArgs ==
  {S_s \o <<<<"-", "M">>, <<"/", "a">>>> \o <<<<"-", "-">>>> \o Cmd,
   S_s \o <<<<"-", "M">>, <<"/", "a">>, <<"-", "w">>, <<"/", "t">>>> \o Cmd,
   S_s \o <<<<"-", "M">>, <<"/", "c">>, <<"-", "m">>, <<"/", "t">>, <<"-", "M">>, <<"/", "a">>, <<"-", "m">>, <<"/", "t">>, <<"-", "H">>, <<"x">>>> \o Cmd,
   S_s \o <<<<"-", "d">>, <<"/", "e">>, <<"-", "M">>, <<"/", "a">>, <<"-", "m">>, <<"/", "t">>, <<"-", "M">>, <<"/", "c">>, <<"-", "w">>, <<"/", "t">>, <<"-", "M">>, <<"/", "c">>, <<"-", "m">>, <<"/", "u">>>> \o Cmd,
   S_s \o <<<<"-", "n">>, <<"-", "d">>, <<"/", "e">>, <<"-", "M">>, <<"/", "b">>, <<"-", "m">>, <<"/", "f", "/", "g">>, <<"@", "f">>>>,
   S_s \o <<<<"-", "M">>, <<"/", "b">>, <<"-", "w">>, <<"/", "e", "t", "c", "/", "p", "a", "s", "s", "w", "d">>>> \o Cmd,
   S_s \o <<<<"-", "M">>, <<"/", "n">>>> \o Cmd,
   S_s \o <<<<"-", "l">>, <<"/", "o">>, <<"-", "L">>, <<"-">>, <<"-", "W">>, <<"/", "e">>, <<"-", "d">>, <<"/", "e">>, <<"-", "D">>>> \o Cmd,
   <<<<"-", "S">>, <<"/", "s", "/">>, <<"-", "i">>, <<"-", "r">>, <<"-", "W">>, <<"/", "w">>>> \o Cmd,
   <<<<"-", "C">>>>,
   <<<<"-", "M">>, <<"/", "a">>>> \o Cmd,
   S_s \o <<<<"-", "m">>, <<"/", "t">>>> \o Cmd,
   S_s \o S_s \o Cmd,
   S_s \o <<<<"-", "W">>, <<"/", "w">>, <<"-", "W">>, <<"/", "w">>>> \o Cmd,
   S_s \o <<<<"-", "l">>, <<"/", "o">>, <<"-", "l">>, <<"/", "o">>>> \o Cmd,
   S_s \o <<<<"-", "L">>, <<"/", "o">>, <<"-", "L">>, <<"/", "o">>>> \o Cmd,
   S_s \o <<<<"-", "M">>, <<"/", "a">>, <<"-", "m">>, <<"/", "t">>, <<"-", "w">>, <<"/", "u">>>> \o Cmd,
   S_s \o <<<<"-", "x">>>> \o Cmd,
   S_s \o <<<<"-", "M">>>>,
   S_s}

MainFiles == (<<"f">> :> FileOf(<<<<"-", "M">>, <<"/", "c">>, <<"-", "-">>, <<"c">>>>))
HomeChoices == {NULL, <<"/", "h">>}

\* a run with a relative $HOME
RelativeHomeArgs == S_s \o <<<<"-", "d">>, <<"/", "e">>>> \o Cmd

Init ==
  \/ \E args \in MainArgs : \E home \in HomeChoices :
       Start(<<Prog>> \o args, MainFiles, FALSE, home)
  \/ Start(<<Prog>> \o RelativeHomeArgs, MainFiles, FALSE, <<"r">>)

Next == ParseNext \/ PipelineNext

Spec == Init /\ [][Next]_vars


-----------------------------------------------------------------------------
(* Properties of the whole-program runs (Spec) *)

\* the positions of the log
Events == 1..Len(log)

\* a mount operation of the sandbox construction: every mount and remount
\* but the one that makes "/" private
SandboxMount(e) ==
  IF e.op = "remount" THEN TRUE ELSE e.op = "mount" /\ e.tag # "private"
UnshareOk(e) == e.op = "unshare" /\ e.ok
PrivateOk(e) == e.op = "mount" /\ e.tag = "private" /\ e.ok

\* C1: no mount operation of the sandbox construction (anchor bind, device
\* binds, devpts, tmpfs, /proc bind, user binds, read-only remounts) is
\* issued before unshare has succeeded and before the recursive-private
\* remount of "/" has succeeded.
C1_MountsAfterUnshareAndPrivate ==
  \A j \in Events :
    SandboxMount(log[j]) =>
      \E u \in 1..(j - 1) : \E p \in (u + 1)..(j - 1) :
        UnshareOk(log[u]) /\ PrivateOk(log[p])

\* a run that reached the command after mounts of every kind were issued
C1_Witness ==
  /\ pc = "command"
  /\ \A t \in {"anchor", "dev", "devpts", "shm", "proc", "user"} :
       \E j \in Events : log[j].op = "mount" /\ log[j].tag = t /\ log[j].ok
  /\ \E j \in Events : log[j].op = "remount" /\ log[j].ok


\* the stage of main a function belongs to
StageOf(fn) ==
  CASE fn \in {"SwitchToEuid", "SwitchToEgid"} -> "identity switch"
    [] fn \in {"RedirectStdout", "RedirectStderr"} -> "stdio redirection"
    [] fn \in {"CreateNamespaces", "BringupInterface"} -> "namespace creation"
    [] fn = "MakePrivate" -> "privatize"
    [] fn \in {"SetupDirectories", "SetupDevices", "SetupProc", "CreateDirs",
               "Mounts", "SetupHome"} -> "filesystem build"
    [] fn = "SetupUserNamespace" -> "identity mapping"
    [] fn = "SetHostname" -> "hostname set"
    [] fn = "ChangeRoot" -> "root pivot"
    [] fn = "ExecCommand" -> "exec"

\* the stages a log went through, in order, each one once
RECURSIVE StagesOf(_)
StagesOf(l) ==
  IF l = << >> THEN << >>
  ELSE LET before == StagesOf(SubSeq(l, 1, Len(l) - 1))
           stage == StageOf(l[Len(l)].fn)
       IN IF before # << >> /\ before[Len(before)] = stage THEN before
          ELSE Append(before, stage)

\* the stages after the parse for the options o
StagesFor(o) ==
  <<"identity switch", "stdio redirection", "namespace creation", "privatize",
    "filesystem build", "identity mapping">>
  \o (IF o.host_name # NULL THEN <<"hostname set">> ELSE << >>)
  \o <<"root pivot", "exec">>

\* C2: main runs its stages in the order parse, identity switch, stdio
\* redirection, namespace creation, privatize "/", filesystem build, identity
\* mapping, hostname set (only with -H), root pivot, exec; a stage starts only
\* after the one before it completed without a fatal failure, and the command
\* runs only after all of them.
C2_StagesInOrder ==
  /\ pc \in {"ParseCommandLine", "MainChecks"} => log = << >>
  /\ IsPrefix(StagesOf(log), StagesFor(opt))
  /\ \A j \in Events : log[j].op = "enter" =>
       \A i \in 1..(j - 1) : ~log[i].fatal
  /\ \A j \in Events : log[j].fn = "ChangeRoot" =>
       \E i \in 1..(j - 1) : log[i].op = "setresgid" /\ log[i].ok
  /\ \A j \in Events : log[j].op = "execvp" =>
       \E i \in 1..(j - 1) : log[i].op = "rmdir" /\ log[i].ok
  /\ pc = "command" => StagesOf(log) = StagesFor(opt)

\* a run with -H that reached the command
C2_Witness ==
  /\ pc = "command"
  /\ opt.host_name # NULL
  /\ Len(StagesOf(log)) = 9


\* the mount entries of the options, as the loop of line 542 numbers them
Entries == 0..(opt.num_mounts - 1)

\* the mount a write to the target of entry i goes to: the one mounted last
\* at the longest mount point that leads there
TargetMount(i) == MountOf(mtab, Resolve(<< >>, FullSandboxPath(opt, i)))

\* the mount made for entry i itself
OwnMount(i) == CHOOSE m \in 1..Len(mtab) : mtab[m].user = i

Remounts(i) == {j \in Events : log[j].op = "remount" /\ log[j].i = i}
Binds(i) ==
  {j \in Events : log[j].op = "mount" /\ log[j].tag = "user" /\ log[j].i = i}

AfterNamespaces ==
  {"BringupInterface", "MakePrivate", "SetupDirectories", "SetupDevices",
   "SetupProc", "CreateDirs", "Mounts", "SetupHome", "SetupUserNamespace",
   "SetHostname", "ChangeRoot", "ExecCommand"}

LastEvent(l) == l[Len(l)]

\* no step after CreateNamespaces runs unless a call of unshare succeeded
C5_NothingWithoutNamespaces ==
  /\ \A j \in Events : log[j].fn \in AfterNamespaces =>
       \E u \in 1..(j - 1) : UnshareOk(log[u])
  /\ pc \in AfterNamespaces \cup {"command"} => \E u \in Events : UnshareOk(log[u])
  /\ Len(sleeps) <= max_tries

\* one step of CreateNamespaces; Len(sleeps) is the number of calls of
\* unshare that failed with EINVAL so far, each followed by a sleep
C5_Round ==
  pc = "CreateNamespaces" =>
    IF Len(sleeps) >= max_tries
    THEN \* the budget is used up: no further call, the process exits
         pc' = "exited" /\ status' = 1 /\ log' = log
    ELSE /\ LastEvent(log').op = "unshare"
         /\ CASE LastEvent(log').errno = "" ->
                   pc' = AfterCreateNamespaces(opt) /\ status' = status
              [] LastEvent(log').errno = "EINVAL" ->
                   /\ pc' = "CreateNamespaces"
                   /\ Len(sleeps') = Len(sleeps) + 1
              [] OTHER ->
                   /\ pc' = "exited" /\ status' = 1
                   /\ LastEvent(log').fatal

\* C5: CreateNamespaces retries unshare only while it fails with EINVAL: a
\* success returns at once, a failure with another errno exits non-zero with
\* no further attempt, 100 EINVAL failures in a row end the process non-zero;
\* unshare is called at most 100 times, the loop ends, and no later step of
\* the pipeline runs unless a call succeeded.
C5_RetryOnlyOnEinval == []C5_NothingWithoutNamespaces /\ [][C5_Round]_vars

\* the run in which unshare failed with EINVAL 100 times and the process
\* gave up
C5_Witness ==
  /\ pc = "exited"
  /\ status = 1
  /\ Len(sleeps) = max_tries
  /\ LastEvent(log).op = "unshare"
  /\ LastEvent(log).errno = "EINVAL"


\* the calls a function made so far, in order
CallsOf(fn) == SelectSeq(log, LAMBDA e : e.fn = fn /\ e.op # "enter")
Names(calls) ==
  [k \in 1..Len(calls) |->
     IF calls[k].op = "WriteFile" THEN calls[k].tag ELSE calls[k].op]

UserNamespaceSteps == <<"setgroups", "uid_map", "gid_map", "setresuid", "setresgid">>
AfterUserNamespace == {"SetHostname", "ChangeRoot", "ExecCommand", "command"}

\* C6: SetupUserNamespace writes "deny" to /proc/self/setgroups, writes
\* uid_map, writes gid_map, calls setresuid and then setresgid, in this
\* order.  A setgroups write that fails with ENOENT is ignored and the other
\* steps follow; any other failure of a step ends the process non-zero before
\* the next step, so gid_map is never written after a setgroups failure
\* other than ENOENT.
C6_UserNamespaceOrder ==
  LET calls == CallsOf("SetupUserNamespace")
      Ignored(k) == k = 1 /\ calls[k].errno = "ENOENT"
  IN /\ IsPrefix(Names(calls), UserNamespaceSteps)
     /\ \A k \in 1..Len(calls) :
          \/ calls[k].ok
          \/ Ignored(k) /\ Len(calls) > 1
          \/ /\ ~Ignored(k)
             /\ k = Len(calls)
             /\ pc = "exited"
             /\ status = 1
     /\ pc \in AfterUserNamespace => Len(calls) = Len(UserNamespaceSteps)

\* a run in which the setgroups write failed with ENOENT and the command was
\* reached
C6_Witness ==
  /\ pc = "command"
  /\ CallsOf("SetupUserNamespace")[1].errno = "ENOENT"
  /\ Names(CallsOf("SetupUserNamespace")) = UserNamespaceSteps

\* a failure the code goes on after: unshare with EINVAL, the setgroups write
\* with ENOENT, the read-only remount, the stat of a mount source, what
\* CreateTarget returns in SetupDevices, the fopen of etc/passwd
GoesOnAfter(e) ==
  CASE e.op = "unshare" -> e.errno = "EINVAL"
    [] e.op = "WriteFile" /\ e.tag = "setgroups" -> e.errno = "ENOENT"
    [] e.op = "remount" -> TRUE
    [] e.op = "stat" -> e.fn = "Mounts"
    [] e.op = "CreateTarget" -> e.fn = "SetupDevices"
    [] e.op = "fopen" -> e.fn = "SetupHome"
    [] OTHER -> FALSE

Where(P(_)) == {j \in Events : P(log[j])}
OkBefore(j, P(_)) == \E i \in 1..(j - 1) : P(log[i]) /\ log[i].ok
NumOkBefore(j, P(_)) == Cardinality({i \in 1..(j - 1) : P(log[i]) /\ log[i].ok})

AnchorBind(e) == e.op = "mount" /\ e.tag = "anchor"
ProcBind(e) == e.op = "mount" /\ e.tag = "proc"
DevDone(e) == e.op = "symlink" /\ e.path = <<"d", "e", "v", "/", "f", "d">>
CreateDir(e) == e.op = "CreateTarget" /\ e.tag = "create_dir"
UserCall(e) == e.fn = "Mounts" /\ e.op # "enter"
UserBind(e) == e.op = "mount" /\ e.tag = "user"
HomeCall(e) == e.op = "CreateTarget" /\ e.tag = "home"

\* the calls made for the mount entry i, by name and in order
EntryCalls(i) ==
  LET calls == SelectSeq(log, LAMBDA e : UserCall(e) /\ e.i = i)
  IN [k \in 1..Len(calls) |-> calls[k].op]
EntrySteps(i) ==
  <<"stat", "CreateTarget", "mount">>
  \o (IF Elem(opt.mount_rw, i) THEN << >> ELSE <<"setmntent", "remount">>)

\* C8: in the filesystem builder the anchor bind of the sandbox root comes
\* before every other mount; the population of /dev and the /proc bind come
\* before the create_dirs entries are created, and these before every user
\* mount; the user mounts are made in the order of their declaration, each
\* one as create target, bind and, only for rw = false, read-only remount;
\* the home directory is created after the last user mount.
C8_BuilderOrder ==
  /\ \A j \in Where(SandboxMount) : AnchorBind(log[j]) \/ OkBefore(j, AnchorBind)
  /\ \A j \in Where(CreateDir) : OkBefore(j, DevDone) /\ OkBefore(j, ProcBind)
  /\ \A j \in Where(UserCall) :
       /\ OkBefore(j, DevDone) /\ OkBefore(j, ProcBind)
       /\ NumOkBefore(j, CreateDir) = opt.num_create_dirs
       /\ log[j].i \in Entries
       /\ NumOkBefore(j, UserBind) \in {log[j].i, log[j].i + 1}
       /\ \A i \in 1..(j - 1) : UserCall(log[i]) => log[i].i <= log[j].i
  /\ \A i \in Entries : IsPrefix(EntryCalls(i), EntrySteps(i))
  /\ \A j \in Where(HomeCall) :
       /\ NumOkBefore(j, UserBind) = opt.num_mounts
       /\ \A i \in Entries : IsPrefix(EntrySteps(i), EntryCalls(i))
  /\ \A j \in Where(UserCall) : ~OkBefore(j, HomeCall)

\* a run that built a file tree with a create_dirs entry, a user mount with
\* rw = false, a user mount with rw = true and a home directory
C8_Witness ==
  /\ pc = "SetupUserNamespace"
  /\ opt.num_create_dirs > 0
  /\ \E i \in Entries : Elem(opt.mount_rw, i) /\ EntryCalls(i) = EntrySteps(i)
  /\ \E i \in Entries : ~Elem(opt.mount_rw, i) /\ EntryCalls(i) = EntrySteps(i)
  /\ \E j \in Where(HomeCall) : log[j].ok


-----------------------------------------------------------------------------
(* GetMountFlags on its own (SpecFlags): every mount table of up to          *)
(* MaxEntries entries over two mount points is looked up for both of them    *)

MaxEntries == 3
FlagPaths == {<<"/", "s", "/", "t">>, <<"/", "s", "/", "u">>}
FlagOptions == {{}, {"nosuid"}, {"nodev", "noexec"}, {"ro", "nosuid", "nodev"}}
FlagEntries == {Entry(d, o) : d \in FlagPaths, o \in FlagOptions}
RECURSIVE TablesOf(_)
TablesOf(n) ==
  IF n = 0 THEN {<< >>}
  ELSE LET shorter == TablesOf(n - 1)
       IN shorter \cup {Append(t, e) : t \in shorter, e \in FlagEntries}

InitFlags ==
  /\ Boot(<<Prog>>, MainFiles, FALSE, NULL)
  /\ pc = "GetMountFlags"
  /\ \E tab \in TablesOf(MaxEntries) : \E path \in FlagPaths :
       input = [tab |-> tab, path |-> path, ret |-> {}]

\* the call of line 576 on the table and the path of the input
CallGetMountFlags ==
  /\ pc = "GetMountFlags"
  /\ input' = [input EXCEPT !.ret = GetMountFlags(input.tab, input.path)]
  /\ pc' = "returned"
  /\ UNCHANGED <<InputVars, ParserVars, NsVars, idx, cwd, fs, mtab, sb,
                 homedir, env_home, ids, log, status>>

NextFlags == CallGetMountFlags

SpecFlags == InitFlags /\ [][NextFlags]_vars

\* the MS_ flags in the options of an entry
FlagsIn(entry) ==
  {f \in {"MS_NODEV", "MS_NOSUID", "MS_NOEXEC"} :
     \/ f = "MS_NODEV" /\ "nodev" \in entry.opts
     \/ f = "MS_NOSUID" /\ "nosuid" \in entry.opts
     \/ f = "MS_NOEXEC" /\ "noexec" \in entry.opts}

Matches(tab, path) == {i \in 1..Len(tab) : tab[i].dir = path}
Max(S) == CHOOSE x \in S : \A y \in S : y <= x

\* C9: GetMountFlags(path) returns the MS_NODEV, MS_NOSUID and MS_NOEXEC
\* flags in the options of the last entry of the mount table whose mount
\* point equals path, also when several entries share that mount point, and
\* 0 when no entry matches.
C9_LastEntryWins ==
  pc = "returned" =>
    input.ret = IF Matches(input.tab, input.path) = {} THEN {}
                ELSE FlagsIn(input.tab[Max(Matches(input.tab, input.path))])


-----------------------------------------------------------------------------
(* The parser on its own (SpecParse): ParseCommandLine and main's checks on  *)
(* every vector of up to MaxOpts mount options, with and without files       *)

MaxOpts == 3
MaxNesting == 2

\* the mount options the vectors are made of, each with its value
MountWords ==
  {<<Flag("M"), Abs("a")>>, <<Flag("M"), Abs("b")>>, <<Flag("m"), Abs("t")>>,
   <<Flag("w"), Abs("u")>>}
RECURSIVE WordSeqs(_)
WordSeqs(n) ==
  IF n = 0 THEN {<< >>}
  ELSE LET shorter == WordSeqs(n - 1)
       IN shorter \cup {ws \o w : ws \in shorter, w \in MountWords}

\* the files: f holds five mount options, h starts with a target, g names f
\* after its options, k sets the debug flag, e ends with a command, j has an
\* empty line
ParseFiles ==
  (<<"f">> :> FileOf(<<Flag("M"), Abs("c"), Flag("m"), Abs("t"), Flag("M"), Abs("b"),
                      Flag("M"), Abs("a"), Flag("w"), Abs("u")>>))
  @@ (<<"h">> :> FileOf(<<Flag("m"), Abs("t")>>))
  @@ (<<"k">> :> FileOf(<<Flag("D"), Flag("M"), Abs("b")>>))
  @@ (<<"g">> :> FileOf(<<Flag("n"), Flag("M"), Abs("a"), Flag("w"), Abs("u"), At("f")>>))
  @@ (<<"e">> :> FileOf(<<Flag("d"), Abs("e"), Flag("M"), Abs("c"), DashDash, <<"x">>>>))
  @@ (<<"j">> :> FileOf(<<Flag("M"), Abs("a"), EmptyStr, Flag("m"), Abs("t")>>))

FileArgs == {<< >>, <<At("f")>>, <<At("h")>>, <<At("g")>>, <<At("k")>>, <<At("f"), At("h")>>}

\* vectors outside of the family: a file given before an option and before
\* "--", a command after a file that holds one, the probe, no command, a
\* relative target, a vector of a file alone, relative values of the path
\* options, sandbox roots that end with slashes, and a file with an empty line
ParseSpecials ==
  {[argv |-> <<Prog>> \o S_s \o <<At("f"), Flag("M"), Abs("b")>> \o Cmd, posix |-> FALSE],
   [argv |-> <<Prog>> \o S_s \o <<At("f"), Flag("M"), Abs("b")>> \o Cmd, posix |-> TRUE],
   [argv |-> <<Prog>> \o S_s \o <<DashDash, At("e")>>, posix |-> FALSE],
   [argv |-> <<Prog>> \o S_s \o <<At("e")>>, posix |-> FALSE],
   [argv |-> <<Prog>> \o S_s \o <<At("e")>> \o Cmd, posix |-> FALSE],
   [argv |-> <<Prog, Flag("C")>>, posix |-> FALSE],
   [argv |-> <<Prog>> \o S_s, posix |-> FALSE],
   [argv |-> <<Prog>> \o S_s \o <<Flag("M"), Abs("a"), Flag("m"), <<"r">>>> \o Cmd, posix |-> FALSE],
   [argv |-> <<Prog, At("g")>>, posix |-> FALSE],
   [argv |-> <<Prog, Flag("S"), <<"s">>>> \o Cmd, posix |-> FALSE],
   [argv |-> <<Prog>> \o S_s \o <<Flag("W"), <<"w">>>> \o Cmd, posix |-> FALSE],
   [argv |-> <<Prog>> \o S_s \o <<Flag("d"), <<"e">>>> \o Cmd, posix |-> FALSE],
   [argv |-> <<Prog>> \o S_s \o <<Flag("M"), <<"a">>>> \o Cmd, posix |-> FALSE],
   [argv |-> <<Prog>> \o S_s \o <<Flag("M"), Abs("a"), Flag("w"), <<"r">>>> \o Cmd, posix |-> FALSE],
   [argv |-> <<Prog>> \o S_s \o <<Flag("W"), Abs("w"), Flag("d"), Abs("e"), Flag("M"), Abs("a"), Flag("m"), Abs("t")>> \o Cmd, posix |-> FALSE],
   [argv |-> <<Prog, Flag("S"), <<"/", "s", "/", "/">>>> \o Cmd, posix |-> FALSE],
   [argv |-> <<Prog, Flag("S"), <<"/", "s", "/">>>> \o Cmd, posix |-> FALSE],
   [argv |-> <<Prog, Flag("S"), <<"/">>>> \o Cmd, posix |-> FALSE],
   [argv |-> <<Prog>> \o S_s \o <<At("j")>> \o Cmd, posix |-> FALSE],
   [argv |-> <<Prog>> \o S_s \o <<At("j")>>, posix |-> FALSE]}

ParseRuns ==
  {[argv |-> <<Prog>> \o S_s \o ws \o fa \o Cmd, posix |-> FALSE] :
     ws \in WordSeqs(MaxOpts), fa \in FileArgs}
  \cup ParseSpecials

\* a path of sizeof(argument) characters: the line does not fit the buffer
\* of line 211
LongLine == [i \in 1..ArgumentSize |-> IF i = 1 THEN "/" ELSE "x"]

\* the file l holds a -d with the long path and, after it, the debug flag;
\* the file d holds a whole configuration with three -d options
LongFiles ==
  (<<"l">> :> FileOf(<<Flag("d"), LongLine, Flag("D")>>))
  @@ (<<"d">> :> FileOf(S_s \o <<Flag("d"), Abs("e"), Flag("d"), Abs("f"),
                                  Flag("d"), Abs("g")>> \o Cmd))

LongRuns ==
  {[argv |-> <<Prog>> \o S_s \o <<At("l")>> \o Cmd, posix |-> FALSE],
   [argv |-> <<Prog, At("d")>>, posix |-> FALSE]}

InitParse ==
  \/ \E run \in ParseRuns : Start(run.argv, ParseFiles, run.posix, NULL)
  \/ \E run \in LongRuns : Start(run.argv, LongFiles, run.posix, NULL)

SpecParse == InitParse /\ [][ParseNext]_vars


\* The two-state machine Empty / SourcePending over the -M, -m and -w options
\* of one vector: pending is the source that waits for its target (NULL in
\* the state Empty), out is the list of the entries emitted so far.
MountEntry(source, target, rw) == [source |-> source, target |-> target, rw |-> rw]
RECURSIVE Machine(_, _, _)
Machine(events, pending, out) ==
  IF events = << >>
  THEN IF pending # NULL THEN Append(out, MountEntry(pending, pending, FALSE))
       ELSE out
  ELSE LET c == Head(events)[1]
           a == Head(events)[2]
       IN CASE c = "M" ->
                 Machine(Tail(events), a,
                         IF pending # NULL
                         THEN Append(out, MountEntry(pending, pending, FALSE))
                         ELSE out)
            [] c \in {"m", "w"} ->
                 Machine(Tail(events), NULL,
                         Append(out, MountEntry(pending, a, c = "w")))
            [] OTHER -> Machine(Tail(events), pending, out)

\* the entries of the mount list from the index from on, n of them
MountList(o, from, n) ==
  [k \in 1..n |-> MountEntry(Elem(o.mount_sources, from + k - 1),
                             Elem(o.mount_targets, from + k - 1),
                             Elem(o.mount_rw, from + k - 1))]

NumOf(events, c) == Cardinality({k \in 1..Len(events) : events[k][1] = c})

\* C3: for the -M, -m and -w options of one argument vector that raised no
\* usage error, the mount list the parser built is what the machine emits:
\* -M S' with S pending emits S -> S read-only and leaves S' pending, -m T
\* emits pending -> T read-only, -w T emits pending -> T read-write, the end
\* of the options with S pending emits S -> S read-only; the entries are
\* stored in this order and there are as many as -M options.
C3_MountListIsMachineOutput ==
  \A f \in 1..Len(frames) :
    frames[f].phase = "files" =>
      LET expected == Machine(frames[f].events, NULL, << >>)
      IN /\ Len(expected) = NumOf(frames[f].events, "M")
         /\ opt.num_mounts >= frames[f].base + Len(expected)
         /\ MountList(opt, frames[f].base, Len(expected)) = expected
         /\ (\A k \in 1..Len(argv0) : FirstChar(argv0[k]) # "@")
              => opt.num_mounts = Len(expected)

\* the options of a vector with a -M that is followed by -m, one by -w and
\* one by neither have been parsed
C3_Witness ==
  /\ pc = "ParseCommandLine"
  /\ Top.phase = "files"
  /\ [k \in 1..Len(Top.events) |-> Top.events[k][1]] = <<"M", "m", "M", "M", "w">>
  /\ opt.num_mounts = Top.base + 3
  /\ MountList(opt, Top.base, 3) = Machine(Top.events, NULL, << >>)


\* the newline-separated lines of a text, from the position pos on
RECURSIVE LinesFrom(_, _, _)
LinesFrom(text, pos, acc) ==
  LET newlines == {i \in pos..Len(text) : text[i] = "\n"}
  IN IF pos > Len(text) THEN acc
     ELSE IF newlines = {} THEN Append(acc, SubSeq(text, pos, Len(text)))
     ELSE LET n == CHOOSE i \in newlines : \A j \in newlines : i <= j
          IN LinesFrom(text, n + 1, Append(acc, SubSeq(text, pos, n - 1)))
LinesOf(text) == LinesFrom(text, 1, << >>)

IsFile(e) == FirstChar(e) = "@" /\ StrFrom(e, 1) \in DOMAIN files

\* the arguments args with every @FILE replaced in place by the lines of the
\* file, files named in files included down to the given depth
RECURSIVE Substituted(_, _)
Substituted(args, depth) ==
  IF args = << >> THEN << >>
  ELSE (IF IsFile(Head(args)) /\ depth > 0
        THEN Substituted(LinesOf(files[StrFrom(Head(args), 1)]), depth - 1)
        ELSE <<Head(args)>>)
       \o Substituted(Tail(args), depth)
Substitute(argv) == <<Head(argv)>> \o Substituted(Tail(argv), MaxNesting)

\* the lines of a file as they are read: the lines up to the first one
\* that does not fit the buffer, and the first ArgumentSize - 1 characters of
\* that one
ReadLines(text) ==
  LET ls == LinesOf(text)
      long == {k \in 1..Len(ls) : Len(ls[k]) >= ArgumentSize - 1}
  IN IF long = {} THEN ls
     ELSE LET k == CHOOSE i \in long : \A j \in long : i <= j
          IN SubSeq(ls, 1, k - 1) \o <<SubSeq(ls[k], 1, ArgumentSize - 1)>>

\* the arguments args with every @FILE replaced in place by the lines read
\* from the file
RECURSIVE SubstitutedRead(_, _)
SubstitutedRead(args, depth) ==
  IF args = << >> THEN << >>
  ELSE (IF IsFile(Head(args)) /\ depth > 0
        THEN SubstitutedRead(ReadLines(files[StrFrom(Head(args), 1)]), depth - 1)
        ELSE <<Head(args)>>)
       \o SubstitutedRead(Tail(args), depth)
SubstituteRead(argv) == <<Head(argv)>> \o SubstitutedRead(Tail(argv), MaxNesting)

\* ParseCommandLine on a vector without files, from the frame fr on: the
\* options, the debug flag and whether the parse ended the process
RECURSIVE ParseLoop(_, _, _)
ParseLoop(fr, o, dbg) ==
  LET g == Getopt(fr, posix)
  IN IF g.c = "-1"
     THEN LET r == TakeCommand(AddMountSource(NULL, o), g.fr.rest)
          IN [opt |-> r.opt, debug |-> dbg, exits |-> r.usage]
     ELSE IF g.c = "C" THEN [opt |-> o, debug |-> dbg, exits |-> TRUE]
     ELSE LET r == SwitchCase(o, dbg, g, ids)
          IN IF r.usage THEN [opt |-> o, debug |-> dbg, exits |-> TRUE]
             ELSE ParseLoop(g.fr, r.opt, r.debug)
ParseFlat(argv) == ParseLoop(NewFrame(argv), InitOptions(Len(argv)), FALSE)

\* what the parse of the substituted vector gives
Flat == ParseFlat(Substitute(argv0))
FlatRead == ParseFlat(SubstituteRead(argv0))

\* the configuration: the mount list in its order, create_dirs, the flags,
\* the sandbox root and the command
Config(o, dbg) ==
  [mounts |-> MountList(o, 0, o.num_mounts),
   create_dirs |-> [k \in 1..o.num_create_dirs |-> Elem(o.create_dirs, k - 1)],
   flags |-> <<o.create_netns, o.uid, o.gid, o.host_name, o.stdout_path,
               o.stderr_path, o.working_dir, dbg>>,
   sandbox_root |-> o.sandbox_root,
   args |-> o.args]

HasFiles(argv) == \E k \in 2..Len(argv) : IsFile(argv[k])

\* main ends the process for these options (lines 708-713)
MainRejects(o) == IF o.args = NULL THEN TRUE ELSE o.sandbox_root = NULL

RECURSIVE SkipOptions(_, _)
SkipOptions(v, i) ==
  IF i > Len(v) THEN i
  ELSE IF ~IsOptionElement(v[i]) THEN i
  ELSE IF Len(v[i]) = 2 /\ v[i][2] \in OptsWithArg THEN SkipOptions(v, i + 2)
  ELSE SkipOptions(v, i + 1)
RECURSIVE SkipFiles(_, _)
SkipFiles(v, i) ==
  IF i > Len(v) THEN i
  ELSE IF IsFile(v[i]) THEN SkipFiles(v, i + 1) ELSE i

\* A vector is options with their values, then @FILE arguments, then (only
\* in the vector of the command line) the words of the command, none of which
\* is "--" or starts with "-" or "@"; the files are of this shape too.
RECURSIVE OptionsFilesCommand(_, _, _)
OptionsFilesCommand(v, top, depth) ==
  LET a == SkipOptions(v, 2)
      b == SkipFiles(v, a)
  IN /\ \A k \in a..(b - 1) :
          /\ depth > 0
          /\ OptionsFilesCommand(<<EmptyStr>> \o ReadLines(files[StrFrom(v[k], 1)]),
                                 FALSE, depth - 1)
     /\ \A k \in b..Len(v) :
          top /\ v[k] # DashDash /\ FirstChar(v[k]) \notin {"-", "@"}

-----------------------------------------------------------------------------
(* The values of the path options (SpecParse) *)

\* the parse and main's checks are over: the pipeline starts
ReachedPipeline == pc = "SwitchToEuid"

IsAbsolute(path) == IF path = NULL THEN FALSE ELSE FirstChar(path) = "/"

\* C11: a configuration that reaches the pipeline holds only absolute paths
\* for sandbox_root, working_dir, the mount sources, the mount targets and
\* create_dirs, because every path option with a value that does not start
\* with "/" is a usage error.
C11_OnlyAbsolutePaths ==
  ReachedPipeline =>
    /\ IsAbsolute(opt.sandbox_root)
    /\ opt.working_dir # NULL => IsAbsolute(opt.working_dir)
    /\ \A i \in 0..(opt.num_mounts - 1) :
         IsAbsolute(Elem(opt.mount_sources, i)) /\ IsAbsolute(Elem(opt.mount_targets, i))
    /\ \A i \in 0..(opt.num_create_dirs - 1) : IsAbsolute(Elem(opt.create_dirs, i))


\* the state of the machine after the options of a vector parsed so far:
\* SourcePending when the last of its -M, -m and -w options is a -M
RECURSIVE SourcePending(_)
SourcePending(events) ==
  IF events = << >> THEN FALSE
  ELSE IF events[Len(events)][1] = "M" THEN TRUE
  ELSE IF events[Len(events)][1] \in {"m", "w"} THEN FALSE
  ELSE SourcePending(SubSeq(events, 1, Len(events) - 1))

\* getopt hands out a -m or a -w while the machine is in the state Empty
TargetInEmpty ==
  /\ Top.phase = "getopt"
  /\ Getopt(Top, posix).c \in {"m", "w"}
  /\ ~SourcePending(Top.events)

C12_Step ==
  pc = "ParseCommandLine" /\ TargetInEmpty =>
    /\ pc' = "exited"
    /\ status' = 1
    /\ opt' = opt
    /\ log' = << >>

\* C12: a -m or -w met while no -M source is pending (at the start of a
\* vector, after a completed -m or -w, after an entry was emitted) is a usage
\* error: the process exits non-zero, no mount entry is added for it and no
\* step of the pipeline runs.
C12_TargetWithoutSourceIsUsageError == [][C12_Step]_vars

\* the process ended at a -m or -w with an absolute value that followed a
\* completed entry
C12_Witness ==
  /\ pc = "exited"
  /\ status = 1
  /\ frames # << >>
  /\ TargetInEmpty
  /\ IsAbsolute(Getopt(Top, posix).optarg)
  /\ Top.events # << >>
  /\ opt.num_mounts > 0
  /\ log = << >>


-----------------------------------------------------------------------------
(* Configuration errors (Spec) *)

\* what getopt returns for a vector, call after call, and what it leaves
RECURSIVE GetoptAll(_, _)
GetoptAll(fr, acc) ==
  LET g == Getopt(fr, FALSE)
  IN IF g.c = "-1" THEN [cs |-> acc, rest |-> g.fr.rest]
     ELSE GetoptAll(g.fr, Append(acc, g.c))

Count(cs, c) == Cardinality({k \in 1..Len(cs) : cs[k] = c})

\* the k-th option is a -m or -w and the last -M, -m or -w before it, if
\* there is one, is no -M
TargetWithoutSource(cs, k) ==
  /\ cs[k] \in {"m", "w"}
  /\ LET before == {j \in 1..(k - 1) : cs[j] \in {"M", "m", "w"}}
     IN \A j \in before : (\A i \in before : i <= j) => cs[j] # "M"

\* the configuration errors of a vector, read off its options alone
ConfigErrors(argv) ==
  LET all == GetoptAll(NewFrame(argv), << >>)
      cs == all.cs
  IN {c \in {"S", "W", "l", "L"} : Count(cs, c) > 1}
     \cup {"m/w" : k \in {k \in 1..Len(cs) : TargetWithoutSource(cs, k)}}
     \cup {c \in {"?", ":"} : Count(cs, c) > 0}
     \cup (IF all.rest = << >> THEN {"no command"} ELSE {})
     \cup (IF Count(cs, "S") = 0 THEN {"no root"} ELSE {})

\* -C ends the process by itself with the result of the probe
Probes(argv) == Count(GetoptAll(NewFrame(argv), << >>).cs, "C") > 0

-----------------------------------------------------------------------------
(* The old-root directory (Spec) *)

\* a directory entry with the name mkdtemp made exists
OldRootExists ==
  \E n \in DOMAIN fs : IF n = << >> THEN FALSE ELSE n[Len(n)] = old_root

OkCalls(op) == {j \in Events : log[j].op = op /\ log[j].ok}

ChangeRootSteps(o) ==
  <<"mkdtemp", "pivot_root", "chroot", "umount2", "rmdir">>
  \o (IF o.working_dir # NULL THEN <<"chdir_root", "setenv">> ELSE << >>)

\* ChangeRoot makes its calls in the order of ChangeRootSteps, each one after
\* the one before it succeeded
ChangeRootInOrder ==
  LET calls == CallsOf("ChangeRoot")
  IN /\ IsPrefix(Names(calls), ChangeRootSteps(opt))
     /\ \A k \in 1..Len(calls) :
          calls[k].ok \/ (k = Len(calls) /\ pc = "exited" /\ status = 1)
     /\ pc \in {"ExecCommand", "command"} => Len(calls) = Len(ChangeRootSteps(opt))

\* nothing of old-root is left when the working directory is applied and the
\* command is exec'ed
NoOldRootAtExec ==
  /\ \A j \in Events : log[j].op \in {"chdir_root", "execvp"} =>
       \E i \in 1..(j - 1) : log[i].op = "rmdir" /\ log[i].ok
  /\ pc \in {"ExecCommand", "command"} => ~OldRootExists

\* C14 as stated: the old-root directory exists only between the pivot and
\* its removal: it does not exist before the call of pivot_root; ChangeRoot
\* does pivot_root, chroot, the detaching unmount and rmdir in this order;
\* no old-root entry exists when the working directory is applied and the
\* command is exec'ed.
C14_OldRootOnlyAfterPivot ==
  /\ OldRootExists => OkCalls("pivot_root") # {} /\ OkCalls("rmdir") = {}
  /\ \A j \in Events : log[j].op = "pivot_root" =>
       \A i \in 1..(j - 1) : ~(log[i].op = "mkdtemp" /\ log[i].ok)
  /\ ChangeRootInOrder
  /\ NoOldRootAtExec

\* C14, amended: the old-root directory exists exactly from the mkdtemp that
\* ChangeRoot calls before pivot_root to the rmdir; ChangeRoot does mkdtemp,
\* pivot_root, chroot, the detaching unmount and rmdir in this order, a
\* failure of one of them ends the process and leaves the directory; no
\* old-root entry exists when the working directory is applied and the
\* command is exec'ed.
C14_OldRootFromMkdtempToRmdir ==
  /\ OldRootExists <=> (OkCalls("mkdtemp") # {} /\ OkCalls("rmdir") = {})
  /\ \A j \in Events : log[j].op = "pivot_root" =>
       \E i \in 1..(j - 1) : log[i].op = "mkdtemp" /\ log[i].ok
  /\ ChangeRootInOrder
  /\ NoOldRootAtExec

\* the command runs in its working directory after old-root was made, used
\* for the pivot and removed
C14_Witness ==
  /\ pc = "command"
  /\ opt.working_dir # NULL
  /\ Names(CallsOf("ChangeRoot")) = ChangeRootSteps(opt)
  /\ ~OldRootExists


-----------------------------------------------------------------------------
(* The delays of CreateNamespaces (Spec) *)

\* C15: the delay slept after a failed unshare starts at 1 microsecond,
\* doubles from one sleep to the next and never exceeds the ceiling of 250000
\* microseconds, for every number of failed attempts up to 100; a sleep
\* happens only between two attempts, so 100 attempts have at most 99 sleeps.
C15_DelayDoublesUpToCeiling ==
  /\ \A k \in 1..Len(sleeps) :
       /\ sleeps[k] <= DelayCeiling
       /\ k = 1 => sleeps[k] = 1
       /\ k > 1 => sleeps[k] \in {2 * sleeps[k - 1], sleeps[k - 1]}
       /\ k > 1 /\ sleeps[k] = sleeps[k - 1] => 2 * sleeps[k] > DelayCeiling
  /\ Len(sleeps) < max_tries


-----------------------------------------------------------------------------
(* CreateTarget on its own (SpecTarget): the function is called twice with   *)
(* the same arguments in a working directory /h that holds a small tree      *)

\* what can be in /h before the first call: nothing, a directory a (empty,
\* with a directory b or with a file b), a file a or a symbolic link a
TargetTrees ==
  LET base == [n \in {<< >>, <<<<"h">>>>, <<<<"x">>>>} |-> "dir"]
      a == <<<<"h">>, <<"a">>>>
      b == <<<<"h">>, <<"a">>, <<"b">>>>
  IN {base, (a :> "dir") @@ base, (a :> "file") @@ base, (a :> "link") @@ base,
      (b :> "dir") @@ (a :> "dir") @@ base, (b :> "file") @@ (a :> "dir") @@ base}

TargetPaths ==
  {NULL, EmptyStr, <<".">>, <<"a">>, <<"a", "/", "b">>, <<"a", "/", "b", "/", "c">>, <<"/", "x", "/", "y">>, <<"/">>}

NoResult == [ret |-> 1, errno |-> "", exit |-> FALSE, calls |-> 0]

InitTarget ==
  /\ argv0 = <<Prog>>
  /\ files = MainFiles
  /\ posix = FALSE
  /\ frames = << >>
  /\ opt = InitOptions(1)
  /\ global_debug = FALSE
  /\ ub = FALSE
  /\ status = "none"
  /\ tries = 0
  /\ delay = 1
  /\ sleeps = << >>
  /\ idx = 0
  /\ cwd = HostCwd
  /\ mtab = HostMounts
  /\ sb = "garbage-file"
  /\ homedir = NULL
  /\ env_home = NULL
  /\ ids = [uid |-> 1000, gid |-> 1000, outer_uid |-> -1, outer_gid |-> -1]
  /\ log = << >>
  /\ pc = "CreateTarget"
  /\ fs \in TargetTrees
  /\ \E path \in TargetPaths : \E is_directory \in BOOLEAN :
       \E fault \in {"none", "stat", "create"} :
         input = [path |-> path, is_directory |-> is_directory, fault |-> fault,
                  before |-> fs, between |-> fs,
                  first |-> NoResult, second |-> NoResult]

\* the first call; a CHECK_CALL inside of it can end the process
CallCreateTarget ==
  /\ pc = "CreateTarget"
  /\ \E r \in {CreateTarget(fs, cwd, input.path, input.is_directory, input.fault)} :
       /\ fs' = r.fs
       /\ input' = [input EXCEPT !.between = r.fs,
                                 !.first = [ret |-> r.ret, errno |-> r.errno,
                                            exit |-> r.exit,
                                            calls |-> r.calls]]
       /\ IF r.exit THEN Exit(1) ELSE pc' = "CreateTargetAgain" /\ UNCHANGED status
  /\ UNCHANGED <<InputVars, ParserVars, NsVars, idx, cwd, mtab, sb, homedir,
                 env_home, ids, log>>

\* the second call with the same arguments
CallCreateTargetAgain ==
  /\ pc = "CreateTargetAgain"
  /\ \E fault \in {"none", "create"} :
       \E r \in {CreateTarget(fs, cwd, input.path, input.is_directory, fault)} :
         /\ fs' = r.fs
         /\ input' = [input EXCEPT !.second = [ret |-> r.ret, errno |-> r.errno,
                                               exit |-> r.exit,
                                               calls |-> r.calls]]
         /\ IF r.exit THEN Exit(1) ELSE pc' = "returned" /\ UNCHANGED status
  /\ UNCHANGED <<InputVars, ParserVars, NsVars, idx, cwd, mtab, sb, homedir,
                 env_home, ids, log>>

NextTarget == CallCreateTarget \/ CallCreateTargetAgain

SpecTarget == InitTarget /\ [][NextTarget]_vars


\* the node the path of the input names, and what was there before the first
\* call
TargetNode ==
  Resolve(cwd, IF input.path = EmptyStr THEN <<".">> ELSE input.path)
Existing == Stat(input.before, TargetNode)

\* the node was there with another kind than the one asked for
WrongKind ==
  /\ input.path # NULL
  /\ Existing \in {"dir", "file", "link"}
  /\ Existing # (IF input.is_directory THEN "dir" ELSE "file")

\* a second call after a first that succeeded succeeds and changes nothing
SecondCallChangesNothing ==
  pc \in {"returned", "exited"} /\ input.first.ret = 0 =>
    /\ pc = "returned"
    /\ input.second.ret = 0
    /\ fs = input.between

\* a node of the other kind makes the call fail with ENOTDIR when a
\* directory is asked for and with EEXIST when a file is, and nothing is made
WrongKindFails ==
  pc # "CreateTarget" /\ input.fault # "stat" /\ WrongKind =>
    /\ input.first.ret = -1
    /\ input.first.errno = (IF input.is_directory THEN "ENOTDIR" ELSE "EEXIST")
    /\ ~input.first.exit
    /\ input.between = input.before

\* C16 as stated: CreateTarget is idempotent: when a call succeeds, a second
\* call with the same arguments succeeds and leaves the file tree as it is;
\* a path that exists with the other kind fails with ENOTDIR (directory asked
\* for) or EEXIST (file asked for) and creates nothing; the empty path is
\* taken as "." and succeeds.
C16_CreateTargetIdempotent ==
  /\ SecondCallChangesNothing
  /\ WrongKindFails
  /\ pc # "CreateTarget" /\ input.fault # "stat" /\ input.path = EmptyStr =>
       input.first.ret = 0

\* C16, amended: as stated, but the empty path is taken as ".", so it
\* succeeds when a directory is asked for and fails with EEXIST, as every
\* existing directory does, when a file is asked for.
C16_CreateTargetIdempotentDirectory ==
  /\ SecondCallChangesNothing
  /\ WrongKindFails
  /\ pc # "CreateTarget" /\ input.fault # "stat" /\ input.path = EmptyStr =>
       /\ input.between = input.before
       /\ IF input.is_directory THEN input.first.ret = 0
          ELSE input.first.ret = -1 /\ input.first.errno = "EEXIST"

\* both calls were made for a/b/c in an empty directory: the first one made
\* three nodes
C16_Witness ==
  /\ pc = "returned"
  /\ input.path = <<"a", "/", "b", "/", "c">>
  /\ input.first.ret = 0
  /\ input.second.ret = 0
  /\ Cardinality(DOMAIN fs) = Cardinality(DOMAIN input.before) + 3


-----------------------------------------------------------------------------
(* The kind of a mount target (Spec) *)

\* the kind of the source of entry i on the host, and of its target
SourceKind(i) == Stat(fs, Resolve(<< >>, Elem(opt.mount_sources, i)))
TargetKind(i) == Stat(fs, Resolve(<< >>, FullSandboxPath(opt, i)))

\* C17: the target of every user mount is made as a directory exactly when
\* the source is a directory and as a regular file otherwise; a source that
\* does not exist or cannot be stat'ed never gives a completed mount: the run
\* ends non-zero before the next entry.
C17_TargetKindFollowsSource ==
  \A j \in Events :
    /\ log[j].op = "CreateTarget" /\ log[j].tag = "user" /\ log[j].ok =>
         TargetKind(log[j].i) = (IF SourceKind(log[j].i) = "dir" THEN "dir" ELSE "file")
    /\ log[j].op = "stat" /\ log[j].tag = "user" /\ ~log[j].ok =>
         /\ pc = "exited"
         /\ status = 1
         /\ \A k \in Events : UserBind(log[k]) /\ log[k].i = log[j].i => ~log[k].ok
         /\ \A k \in Events : UserCall(log[k]) => log[k].i <= log[j].i

-----------------------------------------------------------------------------
(* The home directory (Spec) *)

HomeEvents == {j \in Events : log[j].fn = "SetupHome" /\ log[j].op # "enter"}
HomeCreated == {j \in HomeEvents : log[j].op = "CreateTarget" /\ log[j].tag = "home"}
HomeSet == {j \in HomeEvents : log[j].op = "setenv" /\ log[j].tag = "HOME"}

\* the passwd entries of the uid, in the order of the file
MatchingEntries(entries, uid) ==
  IF entries = NoFile THEN {}
  ELSE {k \in 1..Len(entries) : entries[k].pw_uid = uid}

\* the home directory the passwd file and $HOME give
SelectedHome(entries, uid, home) ==
  LET ks == MatchingEntries(entries, uid)
  IN IF ks = {} THEN home
     ELSE entries[CHOOSE k \in ks : \A l \in ks : k <= l].pw_dir

\* the directory of the home directory in the tree of the host
HomeNode(dir) == Resolve(<< >>, opt.sandbox_root \o dir)

\* C18: the home directory is the pw_dir of the first entry of the sandbox's
\* /etc/passwd whose uid is the inner uid, and $HOME when the file cannot be
\* opened or has no such entry; a home directory that is not absolute ends
\* the run with an error; otherwise the directory is created under the
\* sandbox root and HOME is set to it; without a home directory nothing is
\* created and HOME is left as it was.
C18_HomeDirectory ==
  input # NoInput =>
    LET dir == SelectedHome(input.passwd, opt.uid, input.home)
    IN /\ homedir = dir
       /\ dir = NULL =>
            /\ HomeCreated = {} /\ HomeSet = {}
            /\ env_home = input.home
       /\ dir # NULL /\ ~IsAbsolute(dir) =>
            /\ pc = "exited" /\ status = 1
            /\ HomeCreated = {} /\ HomeSet = {}
            /\ log[Len(log)].op = "fopen"
       /\ dir # NULL /\ IsAbsolute(dir) =>
            /\ \E j \in HomeCreated :
                 /\ HomeCreated = {j}
                 /\ log[j].path = StrFrom(dir, 1)
                 /\ log[j].ok =>
                      /\ Stat(fs, HomeNode(dir)) = "dir"
                      /\ \E k \in HomeSet :
                           /\ HomeSet = {k} /\ k = j + 1
                           /\ log[k].path = dir
                           /\ log[k].ok => env_home = dir
                           /\ ~log[k].ok => pc = "exited" /\ status = 1
                 /\ ~log[j].ok => HomeSet = {} /\ pc = "exited" /\ status = 1

\* the passwd file has two entries of the inner uid and $HOME is set: the
\* directory of the first entry was created and HOME names it
C18_Witness ==
  /\ input # NoInput
  /\ input.passwd # NoFile
  /\ \E k, l \in MatchingEntries(input.passwd, opt.uid) :
       k < l /\ input.passwd[k].pw_dir # input.passwd[l].pw_dir
  /\ input.home # NULL
  /\ input.home # SelectedHome(input.passwd, opt.uid, input.home)
  /\ HomeCreated # {} /\ \A j \in HomeCreated : log[j].ok
  /\ env_home = SelectedHome(input.passwd, opt.uid, input.home)
  /\ pc = "command"

-----------------------------------------------------------------------------
(* The stored sandbox root (SpecParse) *)

EndsWithSlash(s) == IF s = NULL \/ Len(s) = 0 THEN FALSE ELSE s[Len(s)] = "/"

\* C19: after the parse the stored sandbox_root has no trailing slash,
\* whatever value -S was given.
C19_NoTrailingSlash ==
  ReachedPipeline /\ opt.sandbox_root # NULL => ~EndsWithSlash(opt.sandbox_root)

-----------------------------------------------------------------------------
(* Empty lines of an argument file (SpecParse) *)

\* the vectors ParseOptionsFile has made of the files being parsed
FileFrames == {k \in 1..Len(frames) : k >= 2}

\* C20: an empty line of an argument file gives no element of the vector
\* made of the file: after sub_argv[0] no element is the empty string.
C20_EmptyLinesSkipped ==
  \A k \in FileFrames :
    \A i \in 2..Len(frames[k].argv) : frames[k].argv[i] # EmptyStr

-----------------------------------------------------------------------------
(* Lines that do not fit the buffer of ParseOptionsFile (SpecParse) *)

\* the file has a line that does not fit the buffer together with its newline
\* and the final NUL: ArgumentSize - 1 characters in a row without a newline
HasLongLine(content) ==
  \E p \in 1..(Len(content) - (ArgumentSize - 2)) :
    \A q \in p..(p + ArgumentSize - 2) : content[q] # "\n"

\* C21: a file with a line that does not fit the buffer makes the process
\* die: no vector made of such a file is ever parsed, and the process never
\* gets to the pipeline after opening it.
C21_LongLineDies ==
  /\ \A k \in FileFrames : \A f \in DOMAIN files :
       frames[k].argv = SubArgv(files[f]).argv => ~HasLongLine(files[f])
  /\ ReachedPipeline =>
       \A f \in DOMAIN files : HasLongLine(files[f]) =>
         \A i \in 1..Len(argv0) : argv0[i] # <<"@">> \o f

-----------------------------------------------------------------------------
(* The command (SpecParse) *)

\* a vector is at its end (line 372) with arguments left after its options
\* and files
CommandLeft ==
  /\ pc = "ParseCommandLine"
  /\ frames # << >>
  /\ Top.phase = "files"
  /\ ~IsFileArgument(Top.rest)
  /\ Top.rest # << >>

C22_Step ==
  /\ opt.args # NULL => opt'.args = opt.args
  /\ CommandLeft /\ opt.args # NULL =>
       /\ pc' = "exited"
       /\ status' = 1
       /\ opt' = opt
       /\ log' = << >>
  /\ CommandLeft /\ opt.args = NULL => opt'.args = Top.rest /\ pc' # "exited"

\* C22: over the top-level vector and all the vectors of files the command
\* is assigned at most once: a command that is set is never replaced or
\* extended, and a vector that has arguments left when a command is already
\* set ends the process with the usage error, status 1, before any step of
\* the pipeline.
C22_OneCommand == [][C22_Step]_vars

\* the command x of a file is set and the vector that named the file has the
\* argument c left: the process has exited with the usage error
C22_Witness ==
  /\ pc = "exited"
  /\ status = 1
  /\ frames # << >>
  /\ Len(frames) = 1
  /\ Top.phase = "files"
  /\ Top.rest = Cmd
  /\ opt.args = <<<<"x">>>>
  /\ log = << >>

-----------------------------------------------------------------------------
(* The array create_dirs (SpecParse) *)

\* C23: num_create_dirs never exceeds the number of slots of create_dirs
\* (argc of the top-level vector), also with -d options read from files:
\* every -d path is stored inside the array.
C23_CreateDirsInBounds ==
  /\ opt.num_create_dirs <= opt.create_dirs_size
  /\ Len(opt.create_dirs) = opt.create_dirs_size

-----------------------------------------------------------------------------
(* The mount arrays (SpecParse) *)

\* a -M source waits for its target: the vector being parsed is in its
\* options and the last of its -M, -m and -w options is a -M
SourceIsPending ==
  /\ pc \in {"ParseCommandLine", "exited", "crashed"}
  /\ frames # << >>
  /\ Top.phase = "getopt"
  /\ SourcePending(Top.events)

\* C25: after every step of the parser num_mounts < mount_map_sizes, the
\* three mount arrays have mount_map_sizes slots each, every slot of
\* mount_sources behind num_mounts is NULL, the slot at num_mounts is not
\* NULL exactly when a -M source is pending, and so every index that -M, -m
\* and -w use (num_mounts) is inside the arrays.
C25_MountArrays ==
  /\ opt.num_mounts >= 0
  /\ opt.num_mounts < opt.mount_map_sizes
  /\ Len(opt.mount_sources) = opt.mount_map_sizes
  /\ Len(opt.mount_targets) = opt.mount_map_sizes
  /\ Len(opt.mount_rw) = opt.mount_map_sizes
  /\ \A i \in (opt.num_mounts + 1)..(opt.mount_map_sizes - 1) :
       Elem(opt.mount_sources, i) = NULL
  /\ (Elem(opt.mount_sources, opt.num_mounts) # NULL) <=> SourceIsPending
  /\ \A i \in 0..(opt.num_mounts - 1) :
       Elem(opt.mount_sources, i) # NULL /\ Elem(opt.mount_targets, i) # NULL

\* the arrays were doubled at least twice while files were parsed and a
\* source is pending
C25_Witness ==
  /\ Len(frames) >= 2
  /\ opt.mount_map_sizes >= 4 * Len(argv0)
  /\ SourceIsPending
  /\ pc = "ParseCommandLine"
  /\ opt.num_mounts >= 3

-----------------------------------------------------------------------------
(* The recursion of CreateTarget (SpecTarget) *)

\* the path of the first call ("." for the empty path), its components, and
\* the nodes on the way from the top ("/" for an absolute path, the working
\* directory otherwise) down to the node of the path
WayPath == IF input.path = EmptyStr THEN <<".">> ELSE input.path
WayComps == SelectSeq(Split(WayPath), LAMBDA c : c # <<".">>)
WayTop == IF FirstChar(WayPath) = "/" THEN << >> ELSE cwd
WayNode(k) == WayTop \o SubSeq(WayComps, 1, k)
WayLen == Len(WayComps)

\* the deepest node on the way that stat does not report as missing
WayStop ==
  CHOOSE k \in 0..WayLen :
    /\ Stat(input.before, WayNode(k)) # "ENOENT"
    /\ \A l \in (k + 1)..WayLen : Stat(input.before, WayNode(l)) = "ENOENT"

\* the nodes the first call has made
Created == DOMAIN input.between \ DOMAIN input.before

FirstCallDone == input.first.calls > 0

\* C24: CreateTarget terminates for every path: it calls itself on the
\* parent of the path, once for every missing node on the way up to the
\* deepest existing one, which is the top ("." or "/") at the latest; it
\* creates only the missing ancestors, as directories, and the path itself,
\* and leaves every existing node as it was.
C24_RecursionToExistingAncestor ==
  FirstCallDone =>
    /\ \A n \in DOMAIN input.before :
         n \in DOMAIN input.between /\ input.between[n] = input.before[n]
    /\ IF input.path = NULL \/ input.fault = "stat"
       THEN input.first.calls = 1 /\ Created = {} /\ input.first.ret = -1
       ELSE
         /\ Stat(input.before, WayNode(0)) # "ENOENT"
         /\ input.first.calls = WayLen - WayStop + 1
         /\ Created \subseteq {WayNode(k) : k \in (WayStop + 1)..WayLen}
         /\ \A k \in (WayStop + 1)..(WayLen - 1) :
              WayNode(k) \in Created => input.between[WayNode(k)] = "dir"
         /\ WayStop < WayLen /\ Stat(input.before, WayNode(WayStop)) = "dir" =>
              /\ \A k \in (WayStop + 1)..(WayLen - 1) : WayNode(k) \in Created
              /\ IF input.fault = "create"
                 THEN input.first.exit /\ WayNode(WayLen) \notin Created
                 ELSE /\ input.first.ret = 0
                      /\ ~input.first.exit
                      /\ WayNode(WayLen) \in Created
                      /\ input.between[WayNode(WayLen)] =
                           (IF input.is_directory THEN "dir" ELSE "file")
         /\ WayStop < WayLen /\ Stat(input.before, WayNode(WayStop)) # "dir" =>
              Created = {} /\ input.first.exit
         /\ WayStop = WayLen => Created = {} /\ ~input.first.exit

\* a/b/c was asked for where /h held nothing: four calls, the last one on
\* ".", and the three nodes were made
C24_Witness ==
  /\ FirstCallDone
  /\ input.path = <<"a", "/", "b", "/", "c">>
  /\ input.fault = "none"
  /\ input.first.calls = 4
  /\ input.first.ret = 0
  /\ Cardinality(Created) = 3
  /\ WayStop = 0

====
